---- MODULE Spec2Model ----
(***************************************************************************)
(* A model of the GCP -> Morpheus price synchronisation scripts:           *)
(*   gcp-price-sync-final.py  (catalog processing, price sync, validation, *)
(*                             component price sets, main)                 *)
(*   create_prices.py         (price creation from gcp_skus.json)          *)
(*   create_price_sets.py     (price sets by category)                     *)
(*   map_price_sets_to_service_plans.py (price sets mapped to a plan)      *)
(*   discover_gcp_skus.py     (retrying clients, paginated listings)       *)
(* Each part of the program has its own specification over the shared      *)
(* variables: SpecSync (batch price synchronisation; SpecRace adds an      *)
(* external writer), SpecValidate (the payload validation gate), SpecRetry *)
(* (one request through a retrying client), SpecPage (a paginated          *)
(* listing), SpecCatalog (normalisation, categorisation and pricing        *)
(* entries), SpecClassify (classification of one SKU), SpecCode (price     *)
(* codes), SpecSets (price sets), SpecMap (plan mapping) and SpecMain (a   *)
(* run of the final script).  A specification leaves the variables of the  *)
(* other parts unchanged.                                                  *)
(***************************************************************************)
EXTENDS Integers, Sequences, FiniteSets, TLC

VARIABLES
    \* ---- batch price synchronisation
    script,          \* which loop runs: "main_final", "sync_data", "create_prices"
    batch,           \* pricing_data / gcp_skus: the candidate records of the run
    target,          \* codes of the price records held by the target system
    run,             \* number of the current run (the catalog is unchanged across runs)
    i,               \* position of the record being processed (1-based)
    pc,              \* "lookup" | "create" | "done" | "aborted" | "idle"
    existing,        \* local `existing` / `existing_price`: "found" | "none" | "unset"
    payloadBound,    \* whether the local name `payload` is bound (final script)
    created_prices,  \* len(created_prices)
    skipped_count,
    error_count,
    outcome,         \* per record of this run: how it ended
    logged,          \* per record of this run: level of the log entry it left
    lookedUp,        \* history: the code of the latest lookup request
    posts,           \* history: create requests issued, with the lookup that preceded
    lookupFaults,    \* history: lookups of this run not answered with status 200
    \* ---- payload validation gate
    vCount,          \* payloads that went through the gate
    vLast,           \* the latest payload and what the gate did with it
    vSent,           \* payloads sent in a create request
    \* ---- one request through a retrying client
    client,          \* "make_request" | "_retry_request" | "_retry_api_call" | "session"
    access_token,    \* GCPBillingRestClient.access_token: "token" | "none"
    attempt,         \* loop variable `attempt` (retries used, for the session)
    rpc,             \* "attempt" | "returned" | "raised" | "idle"
    responses,       \* history: the answer to each attempt (0: transport failure)
    waits,           \* history: seconds slept before each retry
    result,          \* status of the response handed to the caller, or -1
    \* ---- a paginated listing
    listing,         \* "services" (get_services) | "skus" (get_skus)
    region_filter,   \* whether get_skus was given a region filter
    pages,           \* the server's pages; the token of page k is k, 0 is no token
    next_page_token, \* local `next_page_token` (0: None or empty)
    items,           \* local `services` / `skus`: every item fetched
    filtered,        \* local `filtered_skus`
    sent,            \* history: the token sent with each request of this call
    ppc,             \* "fetch" | "done" | "raised" | "idle"
    callNo,          \* number of the current call
    returned,        \* the list the call returned (<<>> until it returns)
    \* ---- catalog processing
    catalog,         \* the SKUs of the catalog file, in file order
    cpc,             \* "process" | "pricing" | "done" | "sets" | "raised" | "idle"
    cidx,            \* number of SKUs processed / priced so far
    processed,       \* processed_skus: bucket -> list of normalized SKUs
    all_skus,        \* get_all_skus(), once built
    pricing_data,    \* create_comprehensive_pricing_data(), entry by entry
    price_values,    \* create_prices.py: extract_price_value of each SKU
    price_sets,      \* create_enhanced_price_sets(), once built
    \* ---- classification of one SKU
    ksku,            \* the normalized SKU handed to the classifier
    kpc,             \* "input" | "classified" | "idle"
    kbucket,         \* result of _categorize_sku ("unset" before)
    kclass,          \* result of classify_price_type
    \* ---- price codes
    gscript,         \* "final" | "create_prices"
    gargs,           \* prefix, price type, family, region and two SKU ids
    gpc,             \* "input" | "built" | "idle"
    gcodes,          \* the codes built for the two SKU ids
    \* ---- price sets
    sscript,         \* "component" (final script) | "create_price_sets"
    sprices,         \* pricing_data / prices.json: the prices to group
    price_id_map,    \* code -> id of the prices on the target (0: none)
    spc,             \* "group" | "attach" | "emit" | "done" | "idle"
    sidx,            \* entries grouped / groups emitted so far
    storage_prices,  \* storage_prices_by_region[region_key]
    family_prices,   \* the groups, in insertion order
    incomplete,      \* history: codes of the groups logged as incomplete
    requests,        \* history: price-set payloads sent to the target
    set_errors,      \* history: codes of the groups whose requests raised
    \* ---- price sets mapped to a service plan
    mscript,         \* "map_price_sets" (the script) | "main_final" (the loop of main)
    plan_refs,       \* ids of the price sets the plan on the target refers to
    new_sets,        \* ids of price_sets.json / of the set matched to the plan
    mrun,            \* number of the current run
    mpc,             \* "map" | "done" | "exit" | "idle"
    mbefore,         \* the references of the plan as this run read them
    mprev,           \* how the run before this one ended ("none" for the first)
    puts,            \* history: the plan updates of this run
    changes_made,    \* integration_summary['changes_made'] ("unset" before)
    \* ---- a run of the final script
    entry_point,     \* "main" | "sync_data"
    args,            \* the command line flags / the arguments of sync_data
    mcatalog,        \* the pricing entries the catalog gives
    plans,           \* discovered_plans
    tsets,           \* target: number of price sets held under each code
    mainpc,          \* "start" | "prices" | "sets" | "call" | "map" | "plans" |
                     \* "validate" | "done" | "idle"
    mainrun,         \* number of the current run
    main_pricing_data, \* local `pricing_data`
    sets_before,     \* codes of the price sets on the target when the sets were built
    http             \* history: the requests of this run, [method, endpoint]

syncVars == <<script, batch, target, run, i, pc, existing, payloadBound,
              created_prices, skipped_count, error_count, outcome, logged,
              lookedUp, posts, lookupFaults>>

valVars == <<vCount, vLast, vSent>>

reqVars == <<client, access_token, attempt, rpc, responses, waits, result>>

pageVars == <<listing, region_filter, pages, next_page_token, items, filtered,
              sent, ppc, callNo, returned>>

catVars == <<catalog, cpc, cidx, processed, all_skus, pricing_data, price_values,
             price_sets>>

clsVars == <<ksku, kpc, kbucket, kclass>>

codeVars == <<gscript, gargs, gpc, gcodes>>

setVars == <<sscript, sprices, price_id_map, spc, sidx, storage_prices,
             family_prices, incomplete, requests, set_errors>>

mapVars == <<mscript, plan_refs, new_sets, mrun, mpc, mbefore, mprev, puts,
             changes_made>>

mainVars == <<entry_point, args, mcatalog, plans, tsets, mainpc, mainrun,
              main_pricing_data, sets_before, http>>

vars == <<syncVars, valVars, reqVars, pageVars, catVars, clsVars, codeVars, setVars,
          mapVars, mainVars>>

\* Frame conditions: a step of one part leaves the other parts alone.
OnlySync ==
    UNCHANGED <<valVars, reqVars, pageVars, catVars, clsVars, codeVars, setVars,
                mapVars, mainVars>>

OnlyValidate ==
    UNCHANGED <<syncVars, reqVars, pageVars, catVars, clsVars, codeVars, setVars,
                mapVars, mainVars>>

OnlyRetry ==
    UNCHANGED <<syncVars, valVars, pageVars, catVars, clsVars, codeVars, setVars,
                mapVars, mainVars>>

OnlyPage ==
    UNCHANGED <<syncVars, valVars, reqVars, catVars, clsVars, codeVars, setVars,
                mapVars, mainVars>>

OnlyCatalog ==
    UNCHANGED <<syncVars, valVars, reqVars, pageVars, clsVars, codeVars, setVars,
                mapVars, mainVars>>

OnlyClassify ==
    UNCHANGED <<syncVars, valVars, reqVars, pageVars, catVars, codeVars, setVars,
                mapVars, mainVars>>

OnlyCode ==
    UNCHANGED <<syncVars, valVars, reqVars, pageVars, catVars, clsVars, setVars,
                mapVars, mainVars>>

OnlySets ==
    UNCHANGED <<syncVars, valVars, reqVars, pageVars, catVars, clsVars, codeVars,
                mapVars, mainVars>>

OnlyMap ==
    UNCHANGED <<syncVars, valVars, reqVars, pageVars, catVars, clsVars, codeVars,
                setVars, mainVars>>

\* A step of main itself: the variables of the price sets are its callee's.
OnlyMain ==
    UNCHANGED <<syncVars, valVars, reqVars, pageVars, catVars, clsVars, codeVars,
                mapVars>>

----------------------------------------------------------------------------
(* Bounds of the model *)

\* Records in one batch.
MaxBatch == 2
\* Runs of the synchronisation over the same catalog.
MaxRuns == 2

Codes == {"c1", "c2"}

Scripts == {"main_final", "sync_data", "create_prices"}

\* priceTypeCode values produced by classify_price_type.
PipelinePriceTypes == {"storage", "cores", "memory", "software"}

----------------------------------------------------------------------------
(* Price payload and its validation (gcp-price-sync-final.py) *)

\* A payload field is "missing" (key absent), "null" (None) or a value kind.
RequiredFields == <<"name", "code", "priceType", "priceUnit", "price", "cost", "currency">>

NotNoneFields == {"name", "code", "priceType", "priceUnit", "currency"}

NumericFields == {"price", "cost"}

BooleanFields == {"incurCharges", "active"}

price_types_of_components == {"memory", "cores", "storage"}

valid_price_types == {"fixed", "compute", "memory", "cores", "storage", "datastore",
                      "platform", "software", "load_balancer",
                      "load_balancer_virtual_server"}

\* validate_price_payload: True iff the payload passes; it catches every
\* exception itself and answers False.
ValidatePricePayload(p) ==
    /\ \A k \in 1..Len(RequiredFields) :
          LET f == RequiredFields[k] IN
          /\ p[f] # "missing"
          /\ ~(p[f] = "null" /\ f \in NotNoneFields)
    /\ \A f \in NumericFields :
          (p[f] # "missing" /\ p[f] # "null") => p[f] = "num"
    /\ \A f \in BooleanFields :
          (p[f] # "missing" /\ p[f] # "null") => p[f] = "bool"
    /\ p.priceType \in valid_price_types

\* The payload the sync loop builds from a pricing entry: float() and bool()
\* make price, cost and the flags well typed.
BuildPayload(entry) ==
    [name |-> "str", code |-> "str", priceType |-> entry.priceTypeCode,
     priceUnit |-> "str", price |-> "num", cost |-> "num",
     incurCharges |-> "bool", currency |-> "str", active |-> "bool"]

----------------------------------------------------------------------------
(* Batch price synchronisation *)

\* Status of the answer to the existence lookup, as the caller sees it after
\* the client's own retries: 200, a client error, or no answer at all
\* ("raise": retries exhausted, connection error).
LookupStatuses == {"200", "404", "429", "raise"}

CreateStatuses == {"200", "404", "409", "raise"}

\* What the lookup leaves in `existing`: "found", "none", or "raise" when the
\* call raises.  MorpheusApiClient._request returns None on 404 and raises on
\* every other error; get_price_by_code returns None on every status but 200.
LookupResult(s, status, code) ==
    IF status = "raise" THEN "raise"
    ELSE IF status = "200" THEN (IF code \in target THEN "found" ELSE "none")
    ELSE IF s = "create_prices" THEN "none"
    ELSE IF status = "404" THEN "none"
    ELSE "raise"

\* `if existing and existing.get('prices'): continue` / `if existing_price:`
SkipsExistingNever(res) == FALSE

SkipsExisting(res) == res = "found"

\* What the create call gives back: "created" (a truthy response), "none"
\* (a falsy one) or "raise".
CreateResult(s, status) ==
    IF status = "raise" THEN "raise"
    ELSE IF status = "200" THEN "created"
    ELSE IF s = "create_prices" THEN "none"
    ELSE IF status = "404" THEN "none"
    ELSE "raise"

Entry == batch[i]

\* The loop left after the current record.
AdvanceEnds == [i |-> i, pc |-> "done"]

\* Moves to the next record, or ends the run after the last one.
Advance == IF i < Len(batch) THEN [i |-> i + 1, pc |-> "lookup"]
           ELSE [i |-> i, pc |-> "done"]

Finish(out, lvl, nxt) ==
    /\ outcome' = Append(outcome, out)
    /\ logged' = Append(logged, lvl)
    /\ i' = nxt.i
    /\ pc' = nxt.pc

Abort(out, lvl) ==
    /\ outcome' = Append(outcome, out)
    /\ logged' = Append(logged, lvl)
    /\ i' = i
    /\ pc' = "aborted"

\* The existence lookup of the current record and what follows it up to the
\* create request.
Lookup(status) ==
    /\ pc = "lookup"
    /\ lookedUp' = Entry.code
    /\ LET res == LookupResult(script, status, Entry.code) IN
       /\ lookupFaults' = IF status = "200" THEN lookupFaults ELSE lookupFaults + 1
       /\ existing' = IF res = "raise" THEN existing ELSE res
       /\ IF res = "raise" THEN
             \* create_prices: the lookup is outside the inner try, the outer
             \* handler ends the process.  Final script: the handler logs the
             \* error and then formats `payload`, unbound unless an earlier
             \* record of this run bound it.
             /\ IF script = "create_prices" \/ ~payloadBound
                   THEN Abort("lookup_error", "error")
                   ELSE Finish("lookup_error", "error", Advance)
             /\ UNCHANGED <<payloadBound, created_prices, skipped_count, error_count>>
          ELSE IF SkipsExisting(res) THEN
             /\ Finish("existing",
                       IF script = "create_prices" THEN "info"
                       ELSE IF script = "main_final" THEN "debug" ELSE "none",
                       Advance)
             /\ created_prices' = IF script = "create_prices"
                                     THEN created_prices + 1 ELSE created_prices
             /\ UNCHANGED <<payloadBound, skipped_count, error_count>>
          ELSE IF script = "create_prices" /\ ~Entry.hasPricing THEN
             /\ Finish("no_pricing", "warning", Advance)
             /\ skipped_count' = skipped_count + 1
             /\ UNCHANGED <<payloadBound, created_prices, error_count>>
          ELSE IF script # "create_prices" /\ ~ValidatePricePayload(BuildPayload(Entry)) THEN
             /\ Finish("invalid", "error", Advance)
             /\ payloadBound' = TRUE
             /\ UNCHANGED <<created_prices, skipped_count, error_count>>
          ELSE
             /\ pc' = "create"
             /\ payloadBound' = (script # "create_prices")
             /\ UNCHANGED <<i, outcome, logged, created_prices, skipped_count, error_count>>
    /\ UNCHANGED <<script, batch, target, run, posts>>
    /\ OnlySync

\* The create request of the current record and the handling of its answer.
\* The target keeps codes unique: it answers 200 only for a code it does not hold.
Create(status) ==
    /\ pc = "create"
    /\ status = "200" => Entry.code \notin target
    /\ posts' = Append(posts, [code |-> Entry.code, lookupCode |-> lookedUp,
                                lookup |-> existing, run |-> run,
                                created |-> (status = "200")])
    /\ LET res == CreateResult(script, status) IN
       /\ target' = IF res = "created" THEN target \cup {Entry.code} ELSE target
       /\ IF res = "created" THEN
             /\ Finish("created", "info", Advance)
             /\ created_prices' = IF script = "main_final" THEN created_prices
                                  ELSE created_prices + 1
             /\ UNCHANGED error_count
          ELSE
             \* a falsy answer, or an exception caught by the handler around the call
             /\ Finish("failed", "error", Advance)
             /\ error_count' = IF script = "create_prices" THEN error_count + 1
                               ELSE error_count
             /\ UNCHANGED created_prices
    /\ UNCHANGED <<script, batch, run, existing, payloadBound, skipped_count,
                   lookedUp, lookupFaults>>
    /\ OnlySync

\* The same catalog is synchronised again: every local of the run starts anew.
NewRun ==
    /\ pc \in {"done", "aborted"}
    /\ run < MaxRuns
    /\ run' = run + 1
    /\ i' = 1
    /\ pc' = "lookup"
    /\ existing' = "unset"
    /\ payloadBound' = FALSE
    /\ created_prices' = 0
    /\ skipped_count' = 0
    /\ error_count' = 0
    /\ outcome' = <<>>
    /\ logged' = <<>>
    /\ lookupFaults' = 0
    /\ UNCHANGED <<script, batch, target, lookedUp, posts>>
    /\ OnlySync

\* The parts a specification does not exercise rest in these states.
IdleSync ==
    /\ script = "main_final" /\ batch = <<>> /\ target = {} /\ run = 0 /\ i = 0
    /\ pc = "idle" /\ existing = "unset" /\ payloadBound = FALSE
    /\ created_prices = 0 /\ skipped_count = 0 /\ error_count = 0
    /\ outcome = <<>> /\ logged = <<>> /\ lookedUp = "unset" /\ posts = <<>>
    /\ lookupFaults = 0

IdleValidate == vCount = 0 /\ vLast = [payload |-> "none"] /\ vSent = <<>>

IdleRetry ==
    /\ client = "make_request" /\ access_token = "none" /\ attempt = 0
    /\ rpc = "idle" /\ responses = <<>> /\ waits = <<>> /\ result = -1

IdlePage ==
    /\ listing = "services" /\ region_filter = FALSE /\ pages = <<>>
    /\ next_page_token = 0 /\ items = <<>> /\ filtered = <<>> /\ sent = <<>>
    /\ ppc = "idle" /\ callNo = 0 /\ returned = <<>>

IdleCatalog ==
    /\ catalog = <<>> /\ cpc = "idle" /\ cidx = 0 /\ processed = <<>>
    /\ all_skus = <<>> /\ pricing_data = <<>> /\ price_values = <<>>
    /\ price_sets = <<>>

IdleClassify ==
    /\ ksku = [none |-> TRUE] /\ kpc = "idle" /\ kbucket = "unset"
    /\ kclass = <<"unset", [none |-> TRUE]>>

IdleCode == gscript = "final" /\ gargs = [none |-> TRUE] /\ gpc = "idle" /\ gcodes = <<>>

IdleSets ==
    /\ sscript = "component" /\ sprices = <<>> /\ price_id_map = <<>>
    /\ spc = "idle" /\ sidx = 0 /\ storage_prices = {} /\ family_prices = <<>>
    /\ incomplete = {} /\ requests = <<>> /\ set_errors = {}

IdleMap ==
    /\ mscript = "map_price_sets" /\ plan_refs = {} /\ new_sets = <<>> /\ mrun = 0
    /\ mpc = "idle" /\ mbefore = {} /\ mprev = "none" /\ puts = <<>>
    /\ changes_made = "unset"

IdleMain ==
    /\ entry_point = "main" /\ args = [none |-> TRUE] /\ mcatalog = <<>> /\ plans = <<>>
    /\ tsets = <<>> /\ mainpc = "idle" /\ mainrun = 0 /\ main_pricing_data = <<>>
    /\ sets_before = {} /\ http = <<>>

IdleLast == IdleMap /\ IdleMain

IdleLater == IdleClassify /\ IdleCode /\ IdleSets /\ IdleLast

BatchRecords == [code : Codes, hasPricing : BOOLEAN, priceTypeCode : PipelinePriceTypes]

Batches == UNION {[1..n -> BatchRecords] : n \in 1..MaxBatch}

InitSync ==
    /\ script \in Scripts
    /\ batch \in Batches
    \* the final script never reads pricingInfo here: one shape stands for all
    /\ script # "create_prices" => \A k \in 1..Len(batch) : batch[k].hasPricing
    /\ script = "create_prices" => \A k \in 1..Len(batch) : batch[k].priceTypeCode = "cores"
    \* the code of an entry names its price type
    /\ \A j, k \in 1..Len(batch) :
          batch[j].code = batch[k].code => batch[j].priceTypeCode = batch[k].priceTypeCode
    \* the loop never reads the price type but to copy it into the payload,
    \* and the two codes are alike: one type per batch, and the first record
    \* carries the first code
    /\ \A j, k \in 1..Len(batch) : batch[j].priceTypeCode = batch[k].priceTypeCode
    /\ batch[1].code = "c1"
    /\ target \in SUBSET Codes
    /\ run = 1
    /\ i = 1
    /\ pc = "lookup"
    /\ existing = "unset"
    /\ payloadBound = FALSE
    /\ created_prices = 0
    /\ skipped_count = 0
    /\ error_count = 0
    /\ outcome = <<>>
    /\ logged = <<>>
    /\ lookedUp = "unset"
    /\ posts = <<>>
    /\ lookupFaults = 0
    /\ IdleValidate /\ IdleRetry /\ IdlePage /\ IdleCatalog /\ IdleLater

NextSync ==
    \/ \E status \in LookupStatuses : Lookup(status)
    \/ \E status \in CreateStatuses : Create(status)
    \/ NewRun

SpecSync == InitSync /\ [][NextSync]_vars

----------------------------------------------------------------------------
(* Properties of the batch price synchronisation *)

PostsOfRun == {k \in 1..Len(posts) : posts[k].run = run}

\* A completed run in which every lookup was answered and every record was
\* found on the target.
RerunOnSyncedTarget ==
    /\ pc = "done"
    /\ lookupFaults = 0
    /\ Len(outcome) = Len(batch)
    /\ \A k \in 1..Len(outcome) : outcome[k] = "existing"

\* C1: re-running the synchronisation against a target that already holds every
\* generated code issues no create request and reports zero created records
\* and a skipped count equal to the number of candidate records (stated for
\* create_prices.py, the script that reports created and skipped counts).
C1_RerunReportsAllSkipped ==
    (script = "create_prices" /\ RerunOnSyncedTarget) =>
        /\ PostsOfRun = {}
        /\ created_prices = 0
        /\ skipped_count = Len(batch)

\* C1 (the part the code keeps): such a run issues no create request.
C1_RerunIssuesNoCreate == RerunOnSyncedTarget => PostsOfRun = {}

\* C2: a create request is issued for a code only when the lookup made just
\* before it was a lookup of that code and found no record; no code is
\* created twice, nor created while the target holds it, across runs and
\* when two records of a run carry the same code.
C2_CreateOnlyAfterAbsentLookup ==
    /\ \A k \in 1..Len(posts) :
          /\ posts[k].lookupCode = posts[k].code
          /\ posts[k].lookup = "none"
    /\ \A j, k \in 1..Len(posts) :
          (j < k /\ posts[j].created /\ posts[k].created) => posts[j].code # posts[k].code

\* C2 witness: two records of one run carry the same code, the first was
\* created and the second was found existing.
C2_SameCodeTwiceInRun ==
    /\ Len(batch) = 2
    /\ batch[1].code = batch[2].code
    /\ pc = "done"
    /\ outcome = <<"created", "existing">>

\* C3: a failure on one record (in the lookup or in the create call, at any
\* position of the batch) is logged and the later records are still
\* processed: the run is never aborted and ends with every record handled.
C3_FailureNeverAbortsRun ==
    /\ pc # "aborted"
    /\ pc = "done" => Len(outcome) = Len(batch)

\* C3 (the part the code keeps): a failure of the create call is logged and
\* the run goes on.
C3_CreateFailureContinues ==
    \A k \in 1..Len(outcome) : outcome[k] = "failed" => logged[k] = "error"

----------------------------------------------------------------------------
(* The validation gate of the sync loop, on arbitrary payloads *)

\* Payloads that differ from a well-formed one in at most MaxDefects fields.
MaxDefects == 2

WellFormed == [name |-> "str", code |-> "str", priceType |-> "cores",
               priceUnit |-> "str", price |-> "num", cost |-> "num",
               incurCharges |-> "bool", currency |-> "str", active |-> "bool"]

StrValues == {"str", "null", "missing"}

NumValues == {"num", "nonnum", "null", "missing"}

BoolValues == {"bool", "nonbool", "null", "missing"}

TypeValues == {"cores", "fixed", "quantity", "null", "missing"}

AllPayloads ==
    [name : StrValues, code : StrValues, priceType : TypeValues,
     priceUnit : StrValues, price : NumValues, cost : NumValues,
     incurCharges : BoolValues, currency : StrValues, active : BoolValues]

PayloadShapes ==
    {p \in AllPayloads :
        Cardinality({f \in DOMAIN WellFormed : p[f] # WellFormed[f]}) <= MaxDefects}

\* Payloads the gate handles in one run.
MaxGate == 2

\* `if not validate_price_payload(payload): logger.error(...); continue`
\* and otherwise `morpheus_api.post("prices", payload)`.
ValidateGate(p) ==
    /\ vCount < MaxGate
    /\ LET ok == ValidatePricePayload(p) IN
       /\ vLast' = [payload |-> p, valid |-> ok, sent |-> ok, logged |-> ~ok]
       /\ vSent' = IF ok THEN Append(vSent, p) ELSE vSent
    /\ vCount' = vCount + 1
    /\ OnlyValidate

InitValidate ==
    /\ IdleValidate
    /\ IdleSync /\ IdleRetry /\ IdlePage /\ IdleCatalog /\ IdleLater

NextValidate == \E p \in PayloadShapes : ValidateGate(p)

SpecValidate == InitValidate /\ [][NextValidate]_vars

\* What the claim counts as failing validation: a required field missing or
\* null, price or cost not numeric, priceType outside the closed set.
FailsAsClaimed(p) ==
    \/ \E k \in 1..Len(RequiredFields) : p[RequiredFields[k]] \in {"missing", "null"}
    \/ p.price = "nonnum" \/ p.cost = "nonnum"
    \/ p.priceType \notin valid_price_types

\* C4: a payload with a required field missing or null, a non-numeric price
\* or cost, or a priceType outside the closed set is never sent: the gate
\* skips it with a log entry and the run goes on.
C4_InvalidPayloadNeverSent ==
    (vCount > 0 /\ FailsAsClaimed(vLast.payload)) =>
        /\ ~vLast.sent
        /\ vLast.logged

\* C4 (the part the code keeps): a payload the validator rejects is not sent
\* and leaves a log entry; only payloads it accepts are sent.
C4_RejectedPayloadNeverSent ==
    /\ vCount > 0 => (vLast.sent <=> vLast.valid) /\ (vLast.logged <=> ~vLast.valid)
    /\ \A k \in 1..Len(vSent) : ValidatePricePayload(vSent[k])

\* C4 witness: a rejected payload was skipped and a later one went through.
C4_RejectedThenNext == vCount = 2 /\ Len(vSent) = 0 /\ ~vLast.valid

----------------------------------------------------------------------------
(* One request through a retrying client *)

\* make_request(max_retries=3), _retry_request(max_retries=3),
\* _retry_api_call(max_retries=3); Retry(total=max_retries) with max_retries=5.
make_request_max_retries == 3

retry_request_max_retries == 3

retry_api_call_max_retries == 3

session_max_retries == 5

status_forcelist == {429, 500, 502, 503, 504}

\* Answers to one attempt: 0 is a transport failure, otherwise the status.
Answers == {0, 200, 401, 404, 429, 500, 503}

Clients == {"make_request", "_retry_request", "_retry_api_call", "session"}

RECURSIVE Pow2(_)
Pow2(n) == IF n = 0 THEN 1 ELSE 2 * Pow2(n - 1)

\* Attempts a client makes at most.
MaxAttempts(c) ==
    CASE c = "make_request" -> make_request_max_retries
      [] c = "_retry_request" -> retry_request_max_retries
      [] c = "_retry_api_call" -> retry_api_call_max_retries
      [] c = "session" -> session_max_retries + 1

\* What one attempt's answer means to the client: "return" the response,
\* "retry" (when attempts are left) or "raise" at once.
\*   make_request: returns any status < 500, catches RequestException.
\*   _retry_request: raises for 401 without token, for status >= 500 and in
\*     raise_for_status() for every status >= 400, all inside the try whose
\*     handler catches Exception.
\*   _retry_api_call: retries HttpError (a status answer that is an error),
\*     re-raises every other exception.
\*   session: the adapter retries transport failures and the statuses of
\*     status_forcelist.
OnAnswer(c, tok, a) ==
    CASE c = "make_request" ->
            IF a # 0 /\ a < 500 THEN "return" ELSE "retry"
      [] c = "_retry_request" ->
            IF a = 0 THEN "retry"
            ELSE IF a = 401 /\ tok = "none" THEN "retry"
            ELSE IF a >= 500 THEN "retry"
            ELSE IF a >= 400 THEN "retry"
            ELSE "return"
      [] c = "_retry_api_call" ->
            IF a = 0 THEN "raise"
            ELSE IF a >= 400 THEN "retry"
            ELSE "return"
      [] c = "session" ->
            IF a = 0 \/ a \in status_forcelist THEN "retry" ELSE "return"

\* Seconds slept before the next attempt, after failed attempt number k.
WaitAfter(c, k) ==
    CASE c = "make_request" -> 1
      [] c = "_retry_request" -> Pow2(k)
      [] c = "_retry_api_call" -> Pow2(k)
      [] c = "session" -> 0

\* One pass of the retry loop: the request, the handling of its answer and,
\* when the loop goes on, the sleep before the next attempt.
Attempt(a) ==
    /\ rpc = "attempt"
    /\ responses' = Append(responses, a)
    /\ LET what == OnAnswer(client, access_token, a)
           last == attempt = MaxAttempts(client) - 1
       IN
       IF what = "return" THEN
          /\ rpc' = "returned" /\ result' = a
          /\ UNCHANGED <<attempt, waits>>
       ELSE IF what = "raise" \/ last THEN
          /\ rpc' = "raised"
          /\ UNCHANGED <<attempt, waits, result>>
       ELSE
          /\ attempt' = attempt + 1
          /\ waits' = Append(waits, WaitAfter(client, attempt))
          /\ UNCHANGED <<rpc, result>>
    /\ UNCHANGED <<client, access_token>>
    /\ OnlyRetry

\* The caller issues another request through the same client.
NewRequest ==
    /\ rpc \in {"returned", "raised"}
    /\ rpc' = "attempt" /\ attempt' = 0 /\ responses' = <<>> /\ waits' = <<>>
    /\ result' = -1
    /\ UNCHANGED <<client, access_token>>
    /\ OnlyRetry

InitRetry ==
    /\ client \in Clients
    /\ access_token \in {"token", "none"}
    /\ client # "_retry_request" => access_token = "none"
    /\ attempt = 0 /\ rpc = "attempt" /\ responses = <<>> /\ waits = <<>>
    /\ result = -1
    /\ IdleSync /\ IdleValidate /\ IdlePage /\ IdleCatalog /\ IdleLater

NextRetry ==
    \/ \E a \in Answers : Attempt(a)
    \/ NewRequest

SpecRetry == InitRetry /\ [][NextRetry]_vars

Failure(a) == a = 0 \/ a >= 500

ClientError(a) == a >= 400 /\ a < 500

\* C5: a request makes at most the configured number of attempts, retries
\* only after a transport failure or a status >= 500, returns the first
\* response with status < 500 and fails once all attempts are consumed
\* (stated for make_request and _retry_request).
C5_RetriesOnlyOnFailure ==
    client \in {"make_request", "_retry_request"} =>
        /\ Len(responses) <= MaxAttempts(client)
        /\ \A k \in 1..Len(responses) - 1 : Failure(responses[k])
        /\ rpc = "returned" => /\ result = responses[Len(responses)]
                               /\ ~Failure(result)
        /\ rpc = "raised" => /\ Len(responses) = MaxAttempts(client)
                             /\ \A k \in 1..Len(responses) : Failure(responses[k])
        /\ (rpc = "attempt" /\ Len(responses) > 0) => Failure(responses[Len(responses)])

\* C5 (the part the code keeps): no client makes more than its maximum
\* number of attempts.
C5_AttemptsBounded == Len(responses) <= MaxAttempts(client)

\* C6: a response with a 4xx status ends the request after that attempt: it
\* is never followed by another attempt, in any client.
C6_ClientErrorNeverRetried ==
    \A k \in 1..Len(responses) :
        ClientError(responses[k]) => (k = Len(responses) /\ rpc # "attempt")

----------------------------------------------------------------------------
(* A paginated listing (get_services, get_skus) *)

\* Pages the server holds, items per page, calls of the listing.
MaxPages == 2

MaxPageItems == 2

MaxCalls == 2

\* geoTaxonomy of an item: GLOBAL, or regional with the filter's region among
\* its regions or not.
GeoKinds == {"GLOBAL", "in_region", "out_of_region"}

GeoLayouts ==
    UNION {[1..n -> UNION {[1..m -> GeoKinds] : m \in 0..MaxPageItems}] : n \in 1..MaxPages}

\* The items of a layout: each knows its page and position.
PagesOf(layout) ==
    [k \in 1..Len(layout) |->
        [j \in 1..Len(layout[k]) |-> [page |-> k, pos |-> j, geo |-> layout[k][j]]]]

\* The server's answer to a request carrying token t: page t (the first page
\* for no token) and the token of the page after it, 0 when there is none.
ServerPage(t) == IF t = 0 THEN 1 ELSE t

ServerNextToken(t) == IF ServerPage(t) < Len(pages) THEN ServerPage(t) + 1 ELSE 0

\* `params["pageToken"] = next_page_token` when it is set.
PageTokenParamDropped(tok) == 0

PageTokenParam(tok) == tok

\* `geo_type == 'GLOBAL' or (region_filter and region_filter in regions)`
PassesRegionFilter(item) ==
    item.geo = "GLOBAL" \/ (region_filter /\ item.geo = "in_region")

\* One pass of the `while True` loop: the request, the accumulation of its
\* page and the test of nextPageToken.  A request that fails after its
\* retries raises out of the call.
FetchPage(ok) ==
    /\ ppc = "fetch"
    /\ sent' = Append(sent, PageTokenParam(next_page_token))
    /\ IF ~ok THEN
          /\ ppc' = "raised"
          /\ UNCHANGED <<next_page_token, items, filtered, returned>>
       ELSE
          LET t == PageTokenParam(next_page_token)
              page == pages[ServerPage(t)]
              tok == ServerNextToken(t)
              newItems == items \o page
              newFiltered == IF listing = "skus"
                                THEN filtered \o SelectSeq(page, PassesRegionFilter)
                                ELSE filtered
          IN
          /\ items' = newItems
          /\ filtered' = newFiltered
          /\ next_page_token' = tok
          /\ ppc' = IF tok = 0 THEN "done" ELSE "fetch"
          /\ returned' = IF tok # 0 THEN returned
                         ELSE IF listing = "skus" THEN newFiltered ELSE newItems
    /\ UNCHANGED <<listing, region_filter, pages, callNo>>
    /\ OnlyPage

\* A new call of the listing: its locals start anew.
StartCall ==
    /\ ppc \in {"done", "raised"}
    /\ callNo < MaxCalls
    /\ callNo' = callNo + 1
    /\ next_page_token' = 0
    /\ items' = <<>>
    /\ filtered' = <<>>
    /\ sent' = <<>>
    /\ returned' = <<>>
    /\ ppc' = "fetch"
    /\ UNCHANGED <<listing, region_filter, pages>>
    /\ OnlyPage

InitPage ==
    /\ listing \in {"services", "skus"}
    /\ region_filter \in BOOLEAN
    /\ listing = "services" => region_filter = FALSE
    /\ \E layout \in GeoLayouts : pages = PagesOf(layout)
    /\ next_page_token = 0 /\ items = <<>> /\ filtered = <<>> /\ sent = <<>>
    /\ ppc = "fetch" /\ callNo = 1 /\ returned = <<>>
    /\ IdleSync /\ IdleValidate /\ IdleRetry /\ IdleCatalog /\ IdleLater

NextPage ==
    \/ \E ok \in BOOLEAN : FetchPage(ok)
    \/ StartCall

SpecPage == InitPage /\ [][NextPage]_vars

RECURSIVE Concat(_)
Concat(seqs) == IF seqs = <<>> THEN <<>> ELSE Head(seqs) \o Concat(Tail(seqs))

\* The requests of a call follow the tokens: the first carries none, each
\* later one the token of the response before it, and the call ends exactly
\* with the response that carries no token.
FollowsTokens ==
    /\ sent # <<>> => sent[1] = 0
    /\ \A k \in 2..Len(sent) :
          sent[k] # 0 /\ sent[k] = ServerNextToken(sent[k - 1])
    /\ Len(sent) <= Len(pages)
    /\ ppc = "done" => Len(sent) = Len(pages)
    /\ (ppc = "fetch" /\ sent # <<>>) => Len(sent) < Len(pages)

\* C7 as stated: the listing follows the page tokens, stops at the response
\* without a token and returns the items of all fetched pages, concatenated
\* in fetch order; a new call starts from the first page.
C7_ReturnsAllItems ==
    /\ FollowsTokens
    /\ ppc = "done" => returned = Concat(pages)

\* C7 as amended: the same, except that get_skus returns, in fetch order,
\* only the fetched items that are GLOBAL or, when a region filter is given,
\* list the filter's region.
C7_ReturnsItemsPassingFilter ==
    /\ FollowsTokens
    /\ ppc = "done" =>
          returned = IF listing = "services" THEN Concat(pages)
                     ELSE SelectSeq(Concat(pages),
                                    LAMBDA it : \/ it.geo = "GLOBAL"
                                                \/ region_filter /\ it.geo = "in_region")

\* C7 witness: a second call of get_skus fetched two pages from the first
\* page on and returned fewer items than it fetched.
C7_SecondCallFiltered ==
    /\ callNo = 2 /\ ppc = "done" /\ listing = "skus"
    /\ sent = <<0, 2>>
    /\ returned # <<>>
    /\ Len(returned) < Len(items)

----------------------------------------------------------------------------
(* Catalog processing: normalisation, categorisation, pricing entries *)

\* SKUs in the catalog file.
MaxSkus == 2

\* Python's None.
None == [none |-> TRUE]

\* Texts are sequences of characters.
UpperCase == <<"A", "B", "C", "D", "E", "F", "G", "H", "I", "J", "K", "L", "M", "N", "O", "P", "Q", "R", "S", "T", "U", "V", "W", "X", "Y", "Z">>

LowerCase == <<"a", "b", "c", "d", "e", "f", "g", "h", "i", "j", "k", "l", "m", "n", "o", "p", "q", "r", "s", "t", "u", "v", "w", "x", "y", "z">>

Digits == {"0", "1", "2", "3", "4", "5", "6", "7", "8", "9"}

\* str.lower(), character by character.
LowerChar(c) ==
    IF \E n \in DOMAIN UpperCase : UpperCase[n] = c
       THEN LowerCase[CHOOSE n \in DOMAIN UpperCase : UpperCase[n] = c]
       ELSE c

Lower(text) == [n \in 1..Len(text) |-> LowerChar(text[n])]

\* `k in text` on strings.
InNever(k, text) == FALSE

In(k, text) ==
    \E n \in 1..(Len(text) - Len(k) + 1) : SubSeq(text, n, n + Len(k) - 1) = k

\* `any(k in text for k in keywords)`
AnyInNever(keywords, text) == FALSE

AnyIn(keywords, text) == \E k \in keywords : In(k, text)

\* A unitPrice dict: the keys it has and their values (a value of an absent
\* key is not read).  `units` is a string of digits, `nanos` an integer; a
\* dict that is not empty names its currency.
UnitPriceKeys == {"currencyCode", "units", "nanos"}

UnitPrices ==
    {r \in [keys : SUBSET UnitPriceKeys, units : {"0", "2"}, nanos : {0, 500000000}] :
        /\ r.keys # {} => "currencyCode" \in r.keys
        /\ "units" \notin r.keys => r.units = "0"
        /\ "nanos" \notin r.keys => r.nanos = 0}

\* int() of a string of digits.
IntOf(str) == CASE str = "0" -> 0 [] str = "2" -> 2 [] str = "7" -> 7

\* A tier is given by its unitPrice (no key is the empty dict of
\* `.get('unitPrice', {})`), a pricing-info block by its tieredRates.
FullPrice == [keys |-> UnitPriceKeys, units |-> "2", nanos |-> 500000000]

LaterPrice == [keys |-> UnitPriceKeys, units |-> "7", nanos |-> 0]

PricingInfos ==
    {<<>>, <<[tieredRates |-> <<>>]>>}
        \cup {<<[tieredRates |-> <<r>>]>> : r \in UnitPrices}
        \cup {<<[tieredRates |-> <<FullPrice, LaterPrice>>]>>,
              <<[tieredRates |-> <<FullPrice>>], [tieredRates |-> <<LaterPrice>>]>>}

\* Service name, description and category of a SKU (an absent description or
\* category key reads as the empty text of the `.get` defaults).
Texts ==
    {[service_name |-> <<"C", "o", "m", "p", "u", "t", "e", " ", "E", "n", "g", "i", "n", "e">>,
      description |-> <<"N", "2", " ", "I", "n", "s", "t", "a", "n", "c", "e", " ", "C", "o", "r", "e", " ", "r", "u", "n", "n", "i", "n", "g", " ", "i", "n", " ", "S", "i", "n", "g", "a", "p", "o", "r", "e">>,
      resourceFamily |-> <<"C", "o", "m", "p", "u", "t", "e">>, resourceGroup |-> <<"C", "P", "U">>],
     [service_name |-> <<"C", "o", "m", "p", "u", "t", "e", " ", "E", "n", "g", "i", "n", "e">>,
      description |-> <<"E", "2", "-", "s", "t", "a", "n", "d", "a", "r", "d", " ", "R", "a", "m">>,
      resourceFamily |-> <<>>, resourceGroup |-> <<"R", "A", "M">>],
     [service_name |-> <<"C", "l", "o", "u", "d", " ", "S", "t", "o", "r", "a", "g", "e">>,
      description |-> <<"S", "t", "a", "n", "d", "a", "r", "d", " ", "S", "t", "o", "r", "a", "g", "e">>,
      resourceFamily |-> <<"S", "t", "o", "r", "a", "g", "e">>, resourceGroup |-> <<>>],
     [service_name |-> <<"C", "l", "o", "u", "d", " ", "S", "Q", "L">>,
      description |-> <<"M", "y", "S", "Q", "L", " ", "v", "C", "P", "U", " ", "n", "2", "d", "-", "c", "u", "s", "t", "o", "m">>,
      resourceFamily |-> <<"A", "p", "p", "l", "i", "c", "a", "t", "i", "o", "n", "S", "e", "r", "v", "i", "c", "e", "s">>, resourceGroup |-> <<>>],
     [service_name |-> <<"N", "e", "t", "w", "o", "r", "k", "i", "n", "g">>,
      description |-> <<"E", "g", "r", "e", "s", "s">>,
      resourceFamily |-> <<"N", "e", "t", "w", "o", "r", "k">>, resourceGroup |-> <<>>],
     [service_name |-> <<"V", "e", "r", "t", "e", "x", " ", "A", "I">>,
      description |-> <<"P", "r", "e", "d", "i", "c", "t", "i", "o", "n">>,
      resourceFamily |-> <<>>, resourceGroup |-> <<>>],
     [service_name |-> <<"S", "u", "p", "p", "o", "r", "t">>,
      description |-> <<"P", "r", "e", "m", "i", "u", "m", " ", "p", "l", "a", "n">>,
      resourceFamily |-> <<>>, resourceGroup |-> <<>>],
     [service_name |-> <<"S", "u", "p", "p", "o", "r", "t">>,
      description |-> <<>>,
      resourceFamily |-> <<>>, resourceGroup |-> <<>>]}

BaseText == CHOOSE t \in Texts : t.service_name = <<"S", "u", "p", "p", "o", "r", "t">> /\ t.description = <<>>

\* The SKUs a catalog is built from: every pricing shape under one text, and
\* every text under one price.
SkuShapes ==
    {[text |-> BaseText, pricingInfo |-> pi] : pi \in PricingInfos}
        \cup {[text |-> t, pricingInfo |-> <<[tieredRates |-> <<FullPrice>>]>>] : t \in Texts}

RawSku(k, shape) ==
    [skuId |-> k,
     service_name |-> shape.text.service_name,
     description |-> shape.text.description,
     category |-> [resourceFamily |-> shape.text.resourceFamily,
                   resourceGroup |-> shape.text.resourceGroup],
     pricingInfo |-> shape.pricingInfo]

Catalogs ==
    {[k \in 1..Len(shapes) |-> RawSku(k, shapes[k])] :
        shapes \in UNION {[1..m -> SkuShapes] : m \in 1..MaxSkus}}

\* _normalize_sku: None without pricing info, without tiered rates or with an
\* empty unitPrice dict; otherwise the normalized SKU (of its fields, those
\* read downstream).
NormalizeSku(sku) ==
    LET pricing_info == sku.pricingInfo IN
    IF pricing_info = <<>> THEN None
    ELSE LET tiered_rates == pricing_info[1].tieredRates IN
         IF tiered_rates = <<>> THEN None
         ELSE LET rate == tiered_rates[1] IN
              IF rate.keys = {} THEN None
              ELSE [sku_id |-> sku.skuId,
                    description |-> sku.description,
                    service_name |-> sku.service_name,
                    category |-> sku.category,
                    rate |-> rate]

\* The final `return 'other'` of _categorize_sku.
DefaultCategoryUnknown == "unknown"

DefaultCategory == "other"

\* _categorize_sku: resourceFamily first, then keywords of the service name,
\* then keywords of the description.
CategorizeSku(sku) ==
    LET service_name == Lower(sku.service_name)
        description == Lower(sku.description)
        resource_family == Lower(sku.category.resourceFamily)
    IN
    IF resource_family = <<"s", "t", "o", "r", "a", "g", "e">> THEN "storage"
    ELSE IF resource_family = <<"c", "o", "m", "p", "u", "t", "e">> THEN "compute"
    ELSE IF resource_family = <<"n", "e", "t", "w", "o", "r", "k">> THEN "network"
    ELSE IF resource_family = <<"d", "a", "t", "a", "b", "a", "s", "e">> THEN "database"
    ELSE IF resource_family \in {<<"a", "i", "/", "m", "l">>, <<"a", "i">>, <<"m", "l">>} THEN "ai_ml"
    ELSE IF AnyIn({<<"s", "t", "o", "r", "a", "g", "e">>, <<"c", "l", "o", "u", "d", " ", "s", "t", "o", "r", "a", "g", "e">>, <<"f", "i", "l", "e", "s", "t", "o", "r", "e">>, <<"m", "e", "m", "o", "r", "y", "s", "t", "o", "r", "e">>}, service_name)
        THEN "storage"
    ELSE IF AnyIn({<<"c", "o", "m", "p", "u", "t", "e">>, <<"v", "m">>, <<"i", "n", "s", "t", "a", "n", "c", "e">>, <<"g", "k", "e">>, <<"k", "u", "b", "e", "r", "n", "e", "t", "e", "s">>, <<"r", "u", "n">>, <<"f", "u", "n", "c", "t", "i", "o", "n", "s">>}, service_name)
        THEN "compute"
    ELSE IF AnyIn({<<"n", "e", "t", "w", "o", "r", "k">>, <<"v", "p", "c">>, <<"l", "o", "a", "d", " ", "b", "a", "l", "a", "n", "c", "e", "r">>, <<"c", "d", "n">>, <<"g", "a", "t", "e", "w", "a", "y">>}, service_name)
        THEN "network"
    ELSE IF AnyIn({<<"s", "q", "l">>, <<"d", "a", "t", "a", "b", "a", "s", "e">>, <<"f", "i", "r", "e", "s", "t", "o", "r", "e">>, <<"b", "i", "g", "t", "a", "b", "l", "e">>, <<"s", "p", "a", "n", "n", "e", "r">>, <<"a", "l", "l", "o", "y", "d", "b">>}, service_name)
        THEN "database"
    ELSE IF AnyIn({<<"a", "i">>, <<"m", "l">>, <<"v", "e", "r", "t", "e", "x">>, <<"n", "o", "t", "e", "b", "o", "o", "k", "s">>, <<"c", "o", "m", "p", "o", "s", "e", "r">>, <<"d", "a", "t", "a", "f", "l", "o", "w">>}, service_name)
        THEN "ai_ml"
    ELSE IF AnyIn({<<"s", "t", "o", "r", "a", "g", "e">>, <<"g", "b">>, <<"t", "b">>}, description) THEN "storage"
    ELSE IF AnyIn({<<"c", "p", "u">>, <<"r", "a", "m">>, <<"m", "e", "m", "o", "r", "y">>, <<"c", "o", "r", "e">>}, description) THEN "compute"
    ELSE IF AnyIn({<<"n", "e", "t", "w", "o", "r", "k">>, <<"b", "a", "n", "d", "w", "i", "d", "t", "h">>, <<"t", "r", "a", "n", "s", "f", "e", "r">>}, description) THEN "network"
    ELSE IF AnyIn({<<"d", "a", "t", "a", "b", "a", "s", "e">>, <<"s", "q", "l">>, <<"q", "u", "e", "r", "y">>}, description) THEN "database"
    ELSE IF AnyIn({<<"a", "i">>, <<"m", "l">>, <<"m", "a", "c", "h", "i", "n", "e", " ", "l", "e", "a", "r", "n", "i", "n", "g">>, <<"t", "e", "n", "s", "o", "r", "f", "l", "o", "w">>}, description) THEN "ai_ml"
    ELSE DefaultCategory

\* Character classes of the family patterns: [a-z], \d, \w.
IsLetter(c) == \E n \in DOMAIN LowerCase : LowerCase[n] = c

IsDigit(c) == c \in Digits

IsWord(c) ==
    IsLetter(c) \/ IsDigit(c) \/ c = "_" \/ \E n \in DOMAIN UpperCase : UpperCase[n] = c

\* The end of the run of digits that starts at position n.
RECURSIVE DigitsEnd(_, _)
DigitsEnd(name, n) ==
    IF n + 1 <= Len(name) /\ IsDigit(name[n + 1]) THEN DigitsEnd(name, n + 1) ELSE n

\* `([a-z]\d+[a-z]?)-` matched at position n: the position where group 1
\* ends, 0 without a match.
FamilyEndAt(name, n) ==
    IF n + 1 > Len(name) \/ ~IsLetter(name[n]) \/ ~IsDigit(name[n + 1]) THEN 0
    ELSE LET d == DigitsEnd(name, n + 1) IN
         IF d + 2 <= Len(name) /\ IsLetter(name[d + 1]) /\ name[d + 2] = "-" THEN d + 1
         ELSE IF d + 1 <= Len(name) /\ name[d + 1] = "-" THEN d
         ELSE 0

\* extract_machine_family: the pattern anchored at the start, then at the
\* leftmost word boundary where it matches.
ExtractMachineFamily(text) ==
    LET name == Lower(text)
        starts == {n \in 1..Len(name) :
                      /\ n = 1 \/ ~IsWord(name[n - 1])
                      /\ FamilyEndAt(name, n) # 0}
    IN
    IF FamilyEndAt(name, 1) # 0 THEN SubSeq(name, 1, FamilyEndAt(name, 1))
    ELSE IF starts # {}
        THEN LET n == CHOOSE m \in starts : \A o \in starts : m <= o
             IN SubSeq(name, n, FamilyEndAt(name, n))
    ELSE None

\* classify_price_type: (priceTypeCode, machine_family).
ClassifyPriceType(sku) ==
    LET description == Lower(sku.description)
        resource_family == Lower(sku.category.resourceFamily)
        resource_group == Lower(sku.category.resourceGroup)
    IN
    IF \/ resource_family = <<"s", "t", "o", "r", "a", "g", "e">>
       \/ AnyIn({<<"p", "e", "r", "s", "i", "s", "t", "e", "n", "t", " ", "d", "i", "s", "k">>, <<"p", "d", "-">>, <<"h", "y", "p", "e", "r", "d", "i", "s", "k">>, <<"l", "o", "c", "a", "l", " ", "s", "s", "d">>, <<"s", "s", "d">>, <<"h", "d", "d">>, <<"f", "i", "l", "e", "s", "t", "o", "r", "e">>}, description)
        THEN <<"storage", None>>
    ELSE IF \/ resource_family = <<"c", "o", "m", "p", "u", "t", "e">>
            \/ resource_group = <<"c", "p", "u">>
            \/ AnyIn({<<"v", "c", "p", "u">>, <<"c", "o", "r", "e">>, <<"c", "p", "u">>}, description)
        THEN <<"cores", ExtractMachineFamily(description)>>
    ELSE IF resource_group = <<"r", "a", "m">> \/ AnyIn({<<"r", "a", "m">>, <<"m", "e", "m", "o", "r", "y">>}, description)
        THEN <<"memory", ExtractMachineFamily(description)>>
    ELSE <<"software", None>>

\* A price value units + nanos / 1_000_000_000, kept as its whole part and
\* its billionths.
PriceValue(units_val, nanos_val) == [whole |-> units_val, billionths |-> nanos_val]

\* The price of create_comprehensive_pricing_data: 0.0 unless the rate has
\* both keys, then int(units or 0) + int(nanos or 0) / 1_000_000_000.
RatePrice(rate) ==
    IF "units" \in rate.keys /\ "nanos" \in rate.keys
        THEN PriceValue(IntOf(rate.units), rate.nanos)
        ELSE PriceValue(0, 0)

\* One pricing entry of create_comprehensive_pricing_data.
PricingEntry(sku) ==
    LET classified == ClassifyPriceType(sku)
        price_value == RatePrice(sku.rate)
    IN [sku_id |-> sku.sku_id,
        priceTypeCode |-> classified[1],
        machine_family |-> classified[2],
        price |-> price_value,
        cost |-> price_value]

\* create_prices.extract_price_value: first tier of the first pricing info,
\* absent keys read as 0.
ExtractPriceValue(sku) ==
    LET pricing_info == sku.pricingInfo IN
    IF pricing_info = <<>> THEN PriceValue(0, 0)
    ELSE LET tiered_rates == pricing_info[1].tieredRates IN
         IF tiered_rates = <<>> THEN PriceValue(0, 0)
         ELSE LET unit_price == tiered_rates[1]
                  nanos == IF "nanos" \in unit_price.keys THEN unit_price.nanos ELSE 0
                  units == IF "units" \in unit_price.keys THEN IntOf(unit_price.units) ELSE 0
              IN PriceValue(units, nanos)

\* The buckets of processed_skus, in the order of the dict.
Buckets == <<"compute", "storage", "network", "database", "ai_ml", "other">>

\* One pass of the loop of _process_skus.  A category key that is not a
\* bucket is a KeyError out of the constructor.
ProcessSku ==
    /\ cpc = "process"
    /\ cidx < Len(catalog)
    /\ cidx' = cidx + 1
    /\ LET normalized_sku == NormalizeSku(catalog[cidx + 1]) IN
       IF normalized_sku = None THEN UNCHANGED <<processed, cpc>>
       ELSE LET category_key == CategorizeSku(normalized_sku) IN
            IF category_key \in DOMAIN processed
               THEN /\ processed' = [processed EXCEPT
                                        ![category_key] = Append(@, normalized_sku)]
                    /\ UNCHANGED cpc
               ELSE /\ cpc' = "raised"
                    /\ UNCHANGED processed
    /\ UNCHANGED <<catalog, all_skus, pricing_data, price_values, price_sets>>
    /\ OnlyCatalog

\* get_all_skus: the buckets one after another.
GetAllSkus ==
    /\ cpc = "process"
    /\ cidx = Len(catalog)
    /\ all_skus' = Concat([b \in DOMAIN Buckets |-> processed[Buckets[b]]])
    /\ cpc' = "pricing"
    /\ cidx' = 0
    /\ UNCHANGED <<catalog, processed, pricing_data, price_values, price_sets>>
    /\ OnlyCatalog

\* One pass of the loop of create_comprehensive_pricing_data.
PriceSku ==
    /\ cpc = "pricing"
    /\ cidx < Len(all_skus)
    /\ cidx' = cidx + 1
    /\ pricing_data' = Append(pricing_data, PricingEntry(all_skus[cidx + 1]))
    /\ UNCHANGED <<catalog, cpc, processed, all_skus, price_values, price_sets>>
    /\ OnlyCatalog

\* create_prices.py over the same SKUs: the price value of each.
ExtractPrices ==
    /\ cpc = "pricing"
    /\ cidx = Len(all_skus)
    /\ price_values' = [k \in 1..Len(catalog) |-> ExtractPriceValue(catalog[k])]
    /\ cpc' = "done"
    /\ UNCHANGED <<catalog, cidx, processed, all_skus, pricing_data, price_sets>>
    /\ OnlyCatalog

InitCatalog ==
    /\ catalog \in Catalogs
    /\ cpc = "process"
    /\ cidx = 0
    /\ processed = [b \in {Buckets[n] : n \in DOMAIN Buckets} |-> <<>>]
    /\ all_skus = <<>>
    /\ pricing_data = <<>>
    /\ price_values = <<>>
    /\ price_sets = <<>>
    /\ IdleSync /\ IdleValidate /\ IdleRetry /\ IdlePage /\ IdleLater

\* `if summary['count'] > 0` of create_enhanced_price_sets.
HasSkusAlways(count) == TRUE

HasSkus(count) == count > 0

\* sum(...) over a list of counts.
RECURSIVE Sum(_)
Sum(counts) == IF counts = <<>> THEN 0 ELSE Head(counts) + Sum(Tail(counts))

\* get_sku_summary: the count of each bucket, in the order of the dict.
SkuSummary == [b \in DOMAIN Buckets |-> [category |-> Buckets[b],
                                         count |-> Len(processed[Buckets[b]])]]

\* create_enhanced_price_sets: one set per bucket with SKUs, then the
\* comprehensive set.
CreateEnhancedPriceSets ==
    /\ cpc = "done"
    /\ price_sets' =
          [n \in 1..Len(SelectSeq(SkuSummary, LAMBDA su : HasSkus(su.count))) |->
              LET su == SelectSeq(SkuSummary, LAMBDA x : HasSkus(x.count))[n]
              IN [category |-> su.category, sku_count |-> su.count]]
            \o <<[category |-> "comprehensive",
                  sku_count |-> Sum([b \in DOMAIN SkuSummary |-> SkuSummary[b].count])]>>
    /\ cpc' = "sets"
    /\ UNCHANGED <<catalog, cidx, processed, all_skus, pricing_data, price_values>>
    /\ OnlyCatalog

NextCatalog ==
    ProcessSku \/ GetAllSkus \/ PriceSku \/ ExtractPrices \/ CreateEnhancedPriceSets

SpecCatalog == InitCatalog /\ [][NextCatalog]_vars

\* The first tier of the first pricing-info block of a SKU that has one.
HasFirstTier(sku) == sku.pricingInfo # <<>> /\ sku.pricingInfo[1].tieredRates # <<>>

FirstTier(sku) == sku.pricingInfo[1].tieredRates[1]

\* units and nanos of a unit price, an absent one counting as zero.
UnitsOf(unit_price) == IF "units" \in unit_price.keys THEN IntOf(unit_price.units) ELSE 0

NanosOf(unit_price) == IF "nanos" \in unit_price.keys THEN unit_price.nanos ELSE 0

\* The SKU carries no pricing-info block, no tiered-rate entries, or a zero
\* or absent unit price.
Unpriced(sku) ==
    \/ ~HasFirstTier(sku)
    \/ UnitsOf(FirstTier(sku)) = 0 /\ NanosOf(FirstTier(sku)) = 0

\* Where SKU k lies in the buckets.
BucketPlaces(k) ==
    {pl \in (DOMAIN processed) \X (1..Len(catalog)) :
        /\ pl[2] <= Len(processed[pl[1]])
        /\ processed[pl[1]][pl[2]].sku_id = k}

\* C8: a SKU without pricing info, without tiered rates or with a zero or
\* absent unit price (units=0 and nanos=0 in particular) normalizes to null:
\* it enters no bucket and no pricing entry is generated for it.
C8_UnpricedSkuExcluded ==
    \A k \in 1..Len(catalog) :
        Unpriced(catalog[k]) =>
            /\ BucketPlaces(k) = {}
            /\ \A j \in 1..Len(all_skus) : all_skus[j].sku_id # k
            /\ \A j \in 1..Len(pricing_data) : pricing_data[j].sku_id # k

\* C9: the price of a record is units + nanos / 1_000_000_000 of the first
\* tier of the first pricing-info block, whatever the later tiers and blocks
\* hold (units=2, nanos=500000000: 2.5), in both scripts.
C9_PriceIsUnitsPlusNanos ==
    /\ \A j \in 1..Len(pricing_data) :
          LET first == FirstTier(catalog[pricing_data[j].sku_id]) IN
          pricing_data[j].price = [whole |-> UnitsOf(first), billionths |-> NanosOf(first)]
    /\ \A k \in 1..Len(price_values) :
          HasFirstTier(catalog[k]) =>
              price_values[k] = [whole |-> UnitsOf(FirstTier(catalog[k])),
                                 billionths |-> NanosOf(FirstTier(catalog[k]))]

\* C10: processing never raises; every SKU that normalizes to non-null lies
\* in exactly one of the six buckets, exactly once, and a SKU that normalizes
\* to null in none; the list of all SKUs has one entry per SKU normalized to
\* non-null; each of them gets exactly one pricing entry, with one of the
\* four price types and a machine family or none.
C10_NormalizedSkuInExactlyOneBucket ==
    /\ cpc # "raised"
    /\ DOMAIN processed = {"compute", "storage", "network", "database", "ai_ml", "other"}
    /\ \A k \in 1..Len(catalog) :
          (cpc = "process" => k <= cidx) =>
              Cardinality(BucketPlaces(k)) = IF NormalizeSku(catalog[k]) = None THEN 0 ELSE 1
    /\ cpc \in {"pricing", "done"} =>
          /\ Len(all_skus) = Cardinality({k \in 1..Len(catalog) : NormalizeSku(catalog[k]) # None})
          /\ \A k \in 1..Len(catalog) :
                NormalizeSku(catalog[k]) # None =>
                    Cardinality({j \in 1..Len(all_skus) : all_skus[j].sku_id = k}) = 1
    /\ \A j \in 1..Len(pricing_data) :
          /\ pricing_data[j].sku_id = all_skus[j].sku_id
          /\ pricing_data[j].priceTypeCode \in {"storage", "cores", "memory", "software"}
          /\ pricing_data[j].machine_family = None \/ Len(pricing_data[j].machine_family) >= 2
    /\ cpc = "done" => Len(pricing_data) = Len(all_skus)

\* C10 witness: a catalog of two SKUs, both normalized, one in `database`
\* with a machine family and one in `other`, both priced.
C10_TwoSkusTwoBuckets ==
    /\ cpc = "done"
    /\ Len(all_skus) = 2
    /\ Len(processed.database) = 1
    /\ Len(processed.other) = 1
    /\ Len(pricing_data) = 2
    /\ \E j \in 1..2 : /\ pricing_data[j].priceTypeCode = "cores"
                       /\ pricing_data[j].machine_family = <<"n", "2", "d">>

----------------------------------------------------------------------------
(* Classification of one SKU: _categorize_sku and classify_price_type *)

ServiceNames == {<<"C", "o", "m", "p", "u", "t", "e", " ", "E", "n", "g", "i", "n", "e">>, <<"C", "l", "o", "u", "d", " ", "S", "t", "o", "r", "a", "g", "e">>, <<"C", "l", "o", "u", "d", " ", "S", "Q", "L">>, <<"S", "u", "p", "p", "o", "r", "t">>}

Descriptions ==
    {<<"N", "2", " ", "I", "n", "s", "t", "a", "n", "c", "e", " ", "C", "o", "r", "e", " ", "r", "u", "n", "n", "i", "n", "g", " ", "i", "n", " ", "S", "i", "n", "g", "a", "p", "o", "r", "e">>,
     <<"N", "2", " ", "I", "n", "s", "t", "a", "n", "c", "e", " ", "R", "a", "m", " ", "r", "u", "n", "n", "i", "n", "g", " ", "i", "n", " ", "S", "i", "n", "g", "a", "p", "o", "r", "e">>,
     <<"S", "S", "D", " ", "b", "a", "c", "k", "e", "d", " ", "P", "D", " ", "C", "a", "p", "a", "c", "i", "t", "y">>,
     <<"E", "2", "-", "s", "t", "a", "n", "d", "a", "r", "d", " ", "R", "a", "m">>,
     <<"M", "y", "S", "Q", "L", " ", "v", "C", "P", "U", " ", "n", "2", "d", "-", "c", "u", "s", "t", "o", "m">>,
     <<"N", "e", "t", "w", "o", "r", "k", " ", "E", "g", "r", "e", "s", "s">>,
     <<"P", "r", "e", "m", "i", "u", "m", " ", "p", "l", "a", "n">>}

ResourceFamilies ==
    {<<>>, <<"C", "o", "m", "p", "u", "t", "e">>, <<"S", "t", "o", "r", "a", "g", "e">>, <<"S", "T", "O", "R", "A", "G", "E">>, <<"s", "t", "o", "r", "a", "g", "e">>, <<"N", "e", "t", "w", "o", "r", "k">>, <<"D", "a", "t", "a", "b", "a", "s", "e">>, <<"A", "I", "/", "M", "L">>,
     <<"A", "p", "p", "l", "i", "c", "a", "t", "i", "o", "n", "S", "e", "r", "v", "i", "c", "e", "s">>}

ResourceGroups == {<<>>, <<"C", "P", "U">>, <<"R", "A", "M">>, <<"S", "S", "D">>}

ClassifierInputs ==
    [service_name : ServiceNames, description : Descriptions,
     category : [resourceFamily : ResourceFamilies, resourceGroup : ResourceGroups]]

\* The two classifiers applied to the SKU, as _process_skus and
\* create_comprehensive_pricing_data apply them.
Classify ==
    /\ kpc = "input"
    /\ kbucket' = CategorizeSku(ksku)
    /\ kclass' = ClassifyPriceType(ksku)
    /\ kpc' = "classified"
    /\ UNCHANGED ksku
    /\ OnlyClassify

InitClassify ==
    /\ ksku \in ClassifierInputs
    /\ kpc = "input"
    /\ kbucket = "unset"
    /\ kclass = <<"unset", None>>
    /\ IdleSync /\ IdleValidate /\ IdleRetry /\ IdlePage /\ IdleCatalog
    /\ IdleCode /\ IdleSets /\ IdleLast

NextClassify == Classify

SpecClassify == InitClassify /\ [][NextClassify]_vars

\* The rule tables of the bucket classification, in the order of the code.
FamilyRules ==
    <<[bucket |-> "storage", values |-> {<<"s", "t", "o", "r", "a", "g", "e">>}],
      [bucket |-> "compute", values |-> {<<"c", "o", "m", "p", "u", "t", "e">>}],
      [bucket |-> "network", values |-> {<<"n", "e", "t", "w", "o", "r", "k">>}],
      [bucket |-> "database", values |-> {<<"d", "a", "t", "a", "b", "a", "s", "e">>}],
      [bucket |-> "ai_ml", values |-> {<<"a", "i", "/", "m", "l">>, <<"a", "i">>, <<"m", "l">>}]>>

ServiceNameRules ==
    <<[bucket |-> "storage", keywords |-> {<<"s", "t", "o", "r", "a", "g", "e">>, <<"c", "l", "o", "u", "d", " ", "s", "t", "o", "r", "a", "g", "e">>, <<"f", "i", "l", "e", "s", "t", "o", "r", "e">>, <<"m", "e", "m", "o", "r", "y", "s", "t", "o", "r", "e">>}],
      [bucket |-> "compute",
       keywords |-> {<<"c", "o", "m", "p", "u", "t", "e">>, <<"v", "m">>, <<"i", "n", "s", "t", "a", "n", "c", "e">>, <<"g", "k", "e">>, <<"k", "u", "b", "e", "r", "n", "e", "t", "e", "s">>, <<"r", "u", "n">>, <<"f", "u", "n", "c", "t", "i", "o", "n", "s">>}],
      [bucket |-> "network", keywords |-> {<<"n", "e", "t", "w", "o", "r", "k">>, <<"v", "p", "c">>, <<"l", "o", "a", "d", " ", "b", "a", "l", "a", "n", "c", "e", "r">>, <<"c", "d", "n">>, <<"g", "a", "t", "e", "w", "a", "y">>}],
      [bucket |-> "database",
       keywords |-> {<<"s", "q", "l">>, <<"d", "a", "t", "a", "b", "a", "s", "e">>, <<"f", "i", "r", "e", "s", "t", "o", "r", "e">>, <<"b", "i", "g", "t", "a", "b", "l", "e">>, <<"s", "p", "a", "n", "n", "e", "r">>, <<"a", "l", "l", "o", "y", "d", "b">>}],
      [bucket |-> "ai_ml", keywords |-> {<<"a", "i">>, <<"m", "l">>, <<"v", "e", "r", "t", "e", "x">>, <<"n", "o", "t", "e", "b", "o", "o", "k", "s">>, <<"c", "o", "m", "p", "o", "s", "e", "r">>, <<"d", "a", "t", "a", "f", "l", "o", "w">>}]>>

DescriptionRules ==
    <<[bucket |-> "storage", keywords |-> {<<"s", "t", "o", "r", "a", "g", "e">>, <<"g", "b">>, <<"t", "b">>}],
      [bucket |-> "compute", keywords |-> {<<"c", "p", "u">>, <<"r", "a", "m">>, <<"m", "e", "m", "o", "r", "y">>, <<"c", "o", "r", "e">>}],
      [bucket |-> "network", keywords |-> {<<"n", "e", "t", "w", "o", "r", "k">>, <<"b", "a", "n", "d", "w", "i", "d", "t", "h">>, <<"t", "r", "a", "n", "s", "f", "e", "r">>}],
      [bucket |-> "database", keywords |-> {<<"d", "a", "t", "a", "b", "a", "s", "e">>, <<"s", "q", "l">>, <<"q", "u", "e", "r", "y">>}],
      [bucket |-> "ai_ml", keywords |-> {<<"a", "i">>, <<"m", "l">>, <<"m", "a", "c", "h", "i", "n", "e", " ", "l", "e", "a", "r", "n", "i", "n", "g">>, <<"t", "e", "n", "s", "o", "r", "f", "l", "o", "w">>}]>>

\* Rule n of a table matches the text, and no rule before it does.
Matches(rule, text) == \E k \in rule.keywords : In(k, text)

FirstMatch(rules, text, n) ==
    /\ Matches(rules[n], text)
    /\ \A m \in 1..(n - 1) : ~Matches(rules[m], text)

\* C11: the bucket is decided by the resource family when it equals, whatever
\* its casing, one of the family values, whatever the texts contain; otherwise
\* by the first service-name keyword list that matches; otherwise by the
\* first description keyword list that matches; otherwise it is `other`.
C11_BucketRulesInOrder ==
    kpc = "classified" =>
        LET family == Lower(ksku.category.resourceFamily)
            service == Lower(ksku.service_name)
            descr == Lower(ksku.description)
            byFamily == \E n \in DOMAIN FamilyRules : family \in FamilyRules[n].values
            byService == \E n \in DOMAIN ServiceNameRules : Matches(ServiceNameRules[n], service)
            byDescr == \E n \in DOMAIN DescriptionRules : Matches(DescriptionRules[n], descr)
        IN
        /\ \A n \in DOMAIN FamilyRules :
              family \in FamilyRules[n].values => kbucket = FamilyRules[n].bucket
        /\ ~byFamily =>
              \A n \in DOMAIN ServiceNameRules :
                  FirstMatch(ServiceNameRules, service, n) =>
                      kbucket = ServiceNameRules[n].bucket
        /\ (~byFamily /\ ~byService) =>
              \A n \in DOMAIN DescriptionRules :
                  FirstMatch(DescriptionRules, descr, n) =>
                      kbucket = DescriptionRules[n].bucket
        /\ (~byFamily /\ ~byService /\ ~byDescr) => kbucket = "other"

\* C11 witness: the family STORAGE decided against a compute service name and
\* a description of cores.
C11_FamilyBeatsTexts ==
    /\ kpc = "classified"
    /\ ksku.category.resourceFamily = <<"S", "T", "O", "R", "A", "G", "E">>
    /\ ksku.service_name = <<"C", "o", "m", "p", "u", "t", "e", " ", "E", "n", "g", "i", "n", "e">>
    /\ ksku.description = <<"N", "2", " ", "I", "n", "s", "t", "a", "n", "c", "e", " ", "C", "o", "r", "e", " ", "r", "u", "n", "n", "i", "n", "g", " ", "i", "n", " ", "S", "i", "n", "g", "a", "p", "o", "r", "e">>
    /\ kbucket = "storage"

\* C12: a Compute SKU whose description begins with a machine-family token
\* followed by further words ("N2 Instance Core running in Singapore")
\* classifies to cores with that token, lower-cased, as machine family.
C12_LeadingTokenIsFamily ==
    (/\ kpc = "classified"
     /\ Lower(ksku.category.resourceFamily) = <<"c", "o", "m", "p", "u", "t", "e">>
     /\ ksku.description = <<"N", "2", " ", "I", "n", "s", "t", "a", "n", "c", "e", " ", "C", "o", "r", "e", " ", "r", "u", "n", "n", "i", "n", "g", " ", "i", "n", " ", "S", "i", "n", "g", "a", "p", "o", "r", "e">>)
        => /\ kclass[1] = "cores"
           /\ kclass[2] # None
           /\ kclass[2] = <<"n", "2">>

\* The keyword lists of classify_price_type.
StorageKeywords == {<<"p", "e", "r", "s", "i", "s", "t", "e", "n", "t", " ", "d", "i", "s", "k">>, <<"p", "d", "-">>, <<"h", "y", "p", "e", "r", "d", "i", "s", "k">>, <<"l", "o", "c", "a", "l", " ", "s", "s", "d">>, <<"s", "s", "d">>, <<"h", "d", "d">>, <<"f", "i", "l", "e", "s", "t", "o", "r", "e">>}

CoreKeywords == {<<"v", "c", "p", "u">>, <<"c", "o", "r", "e">>, <<"c", "p", "u">>}

MemoryKeywords == {<<"r", "a", "m">>, <<"m", "e", "m", "o", "r", "y">>}

\* C13: a SKU that the storage and cores keywords leave alone and whose
\* description contains ram or memory, or whose resourceGroup is ram,
\* classifies to memory with the family extracted from its description, for
\* the compute resource family as for any other.
C13_MemoryRule ==
    LET descr == Lower(ksku.description)
        family == Lower(ksku.category.resourceFamily)
        group == Lower(ksku.category.resourceGroup)
    IN
    (/\ kpc = "classified"
     /\ family # <<"s", "t", "o", "r", "a", "g", "e">>
     /\ \A k \in StorageKeywords \cup CoreKeywords : ~In(k, descr)
     /\ group # <<"c", "p", "u">>
     /\ group = <<"r", "a", "m">> \/ \E k \in MemoryKeywords : In(k, descr))
        => kclass = <<"memory", ExtractMachineFamily(ksku.description)>>

\* C14: a SKU whose description contains a storage keyword, "SSD backed PD
\* Capacity" among them, classifies to storage with no machine family,
\* whatever its resourceFamily and resourceGroup and whatever cores or memory
\* keywords it also holds.
C14_StorageKeywordFirst ==
    kpc = "classified" =>
        /\ ksku.description = <<"S", "S", "D", " ", "b", "a", "c", "k", "e", "d", " ", "P", "D", " ", "C", "a", "p", "a", "c", "i", "t", "y">> => kclass = <<"storage", None>>
        /\ (\E k \in StorageKeywords : In(k, Lower(ksku.description)))
              => kclass = <<"storage", None>>

\* C14 witness: "SSD backed PD Capacity" under the family Compute and the
\* group CPU, classified to storage.
C14_SsdUnderComputeFamily ==
    /\ kpc = "classified"
    /\ ksku.description = <<"S", "S", "D", " ", "b", "a", "c", "k", "e", "d", " ", "P", "D", " ", "C", "a", "p", "a", "c", "i", "t", "y">>
    /\ ksku.category.resourceFamily = <<"C", "o", "m", "p", "u", "t", "e">>
    /\ ksku.category.resourceGroup = <<"C", "P", "U">>
    /\ kclass = <<"storage", None>>

----------------------------------------------------------------------------
(* Price codes *)

Prefixes == {<<"I", "O", "H", "-", "C", "P">>, <<"i", "o", "h">>}

Regions == {<<"a", "s", "i", "a", "-", "s", "o", "u", "t", "h", "e", "a", "s", "t", "2">>, <<"U", "S", "-", "c", "e", "n", "t", "r", "a", "l", "1">>}

SkuIds == {<<"0", "0", "1", "3", "-", "8", "6", "3", "C">>, <<"0", "0", "1", "3", "-", "8", "6", "3", "c">>, <<"a", "b", "_", "1">>, <<"a", "b", "-", "1">>, <<"a", "b", " ", "1">>}

CodeArguments ==
    [prefix : Prefixes,
     price_type : {<<"s", "t", "o", "r", "a", "g", "e">>, <<"c", "o", "r", "e", "s">>, <<"m", "e", "m", "o", "r", "y">>, <<"s", "o", "f", "t", "w", "a", "r", "e">>},
     family : {None, <<"n", "2">>},
     region : Regions,
     sku_ids : SkuIds \X SkuIds]

\* str.replace(old, new) for single characters.
Replace(text, old, new) == [n \in 1..Len(text) |-> IF text[n] = old THEN new ELSE text[n]]

\* sep.join(parts)
RECURSIVE Join(_, _)
Join(parts, sep) ==
    IF parts = <<>> THEN <<>>
    ELSE IF Len(parts) = 1 THEN parts[1]
    ELSE parts[1] \o sep \o Join(Tail(parts), sep)

\* morpheus_code of create_comprehensive_pricing_data.
MorpheusCode(prefix, price_type, machine_family, region, sku_id) ==
    LET region_key == Replace(region, "-", "_")
        base_code_parts ==
            <<Lower(prefix), <<"g", "c", "p">>, price_type>>
                \o (IF machine_family /= None /\ machine_family /= <<>>
                       THEN <<machine_family>> ELSE <<>>)
                \o <<region_key, sku_id>>
    IN Join(base_code_parts, <<".">>)

\* The price code of create_prices.py.
PriceCode(prefix, sku_id) ==
    Lower(Replace(Replace(Lower(prefix) \o <<"-", "g", "c", "p", "-">> \o sku_id, "_", "-"), " ", "-"))

CodeOf(sku_id) ==
    IF gscript = "final"
        THEN MorpheusCode(gargs.prefix, gargs.price_type, gargs.family, gargs.region, sku_id)
        ELSE PriceCode(gargs.prefix, sku_id)

\* The code of each of the two SKU ids, and the first once more.
BuildCodes ==
    /\ gpc = "input"
    /\ gcodes' = <<CodeOf(gargs.sku_ids[1]), CodeOf(gargs.sku_ids[2]),
                   CodeOf(gargs.sku_ids[1])>>
    /\ gpc' = "built"
    /\ UNCHANGED <<gscript, gargs>>
    /\ OnlyCode

InitCode ==
    /\ gscript \in {"final", "create_prices"}
    /\ gargs \in CodeArguments
    /\ gpc = "input"
    /\ gcodes = <<>>
    /\ IdleSync /\ IdleValidate /\ IdleRetry /\ IdlePage /\ IdleCatalog
    /\ IdleClassify /\ IdleSets /\ IdleLast

NextCode == BuildCodes

SpecCode == InitCode /\ [][NextCode]_vars

IsUpper(c) == \E n \in DOMAIN UpperCase : UpperCase[n] = c

\* C15: the code of the final script joins prefix, gcp, price type, the
\* family when present, the region with underscores for dashes and the SKU
\* id with one separator, and is lower-cased: no character of it is
\* upper-case.
C15_CodeIsLowerCased ==
    (gpc = "built" /\ gscript = "final") =>
        \A c \in 1..2 :
            /\ gcodes[c] =
                  Lower(Join(<<gargs.prefix, <<"g", "c", "p">>, gargs.price_type>>
                                \o (IF gargs.family = None THEN <<>> ELSE <<gargs.family>>)
                                \o <<Replace(gargs.region, "-", "_"), gargs.sku_ids[c]>>,
                             <<".">>))
            /\ \A n \in DOMAIN gcodes[c] : ~IsUpper(gcodes[c][n])

\* C16: the same arguments give the same code, and two different SKU ids
\* under the same other arguments give two different codes, in both scripts.
C16_CodeInjectiveInSkuId ==
    gpc = "built" =>
        /\ gcodes[3] = gcodes[1]
        /\ gargs.sku_ids[1] /= gargs.sku_ids[2] => gcodes[1] /= gcodes[2]

----------------------------------------------------------------------------
(* Category price sets (SpecCatalog) *)

\* The sets built for a category.
SetsOf(category) == {n \in 1..Len(price_sets) : price_sets[n].category = category}

\* C19: the category price sets are one set per bucket that holds a SKU, none
\* for an empty bucket, and one comprehensive set whose SKU count is the sum
\* of the counts of all buckets.
C19_OneSetPerNonEmptyBucket ==
    cpc = "sets" =>
        /\ \A b \in {"compute", "storage", "network", "database", "ai_ml", "other"} :
              /\ Cardinality(SetsOf(b)) = IF Len(processed[b]) > 0 THEN 1 ELSE 0
              /\ \A n \in SetsOf(b) : price_sets[n].sku_count = Len(processed[b])
        /\ Cardinality(SetsOf("comprehensive")) = 1
        /\ \A n \in SetsOf("comprehensive") :
              price_sets[n].sku_count =
                  Len(processed.compute) + Len(processed.storage) + Len(processed.network)
                      + Len(processed.database) + Len(processed.ai_ml) + Len(processed.other)
        /\ \A n \in 1..Len(price_sets) :
              price_sets[n].category \in
                  {"compute", "storage", "network", "database", "ai_ml", "other",
                   "comprehensive"}

\* C19 witness: two buckets hold one SKU each: three sets, the comprehensive
\* one counting two SKUs.
C19_TwoBucketsThreeSets ==
    /\ cpc = "sets"
    /\ Len(processed.compute) = 1
    /\ Len(processed.other) = 1
    /\ Len(price_sets) = 3
    /\ price_sets[3] = [category |-> "comprehensive", sku_count |-> 2]

----------------------------------------------------------------------------
(* Price sets: create_component_price_sets and create_price_sets.py *)

\* Prices handed to the grouping.
MaxEntries == 5

\* Price type and machine_family of a pricing entry (`unknown` stands for no
\* family, `software` for the software type), and whether its description
\* names one of the storage_types; classify_price_type types such an entry
\* storage.
EntryShapes ==
    <<[priceTypeCode |-> "cores", machine_family |-> "e2", names_storage |-> FALSE],
      [priceTypeCode |-> "memory", machine_family |-> "e2", names_storage |-> FALSE],
      [priceTypeCode |-> "cores", machine_family |-> "n2", names_storage |-> FALSE],
      [priceTypeCode |-> "cores", machine_family |-> "unknown", names_storage |-> FALSE],
      [priceTypeCode |-> "storage", machine_family |-> "unknown", names_storage |-> FALSE],
      [priceTypeCode |-> "storage", machine_family |-> "unknown", names_storage |-> TRUE],
      [priceTypeCode |-> "software", machine_family |-> "software",
       names_storage |-> FALSE]>>

\* pricing_data: entry k has the code k, or the code of the entry before it
\* when the catalog lists a SKU twice.  The entries come type by type: their
\* order decides the order of the groups only.
ShapeChoices ==
    {c \in {sh \in UNION {[1..n -> DOMAIN EntryShapes] : n \in 1..MaxEntries} :
                \A k \in 1..(Len(sh) - 1) : sh[k] <= sh[k + 1]} \X BOOLEAN :
        c[2] => (Len(c[1]) >= 2 /\ c[1][1] = c[1][2])}

PricingInputs ==
    {[k \in 1..Len(c[1]) |->
         [code |-> IF c[2] /\ k = 2 THEN 1 ELSE k,
          priceTypeCode |-> EntryShapes[c[1][k]].priceTypeCode,
          machine_family |-> EntryShapes[c[1][k]].machine_family,
          names_storage |-> EntryShapes[c[1][k]].names_storage]] : c \in ShapeChoices}

\* prices.json as create_prices.py writes it: the prices created or found,
\* one per SKU, with their id and category.
PriceCategory(id) == IF id = 3 THEN "network-egress" ELSE "compute-cpu"

PricesJson ==
    {[k \in 1..Len(ids) |-> [id |-> ids[k], category |-> PriceCategory(ids[k])]] :
        ids \in UNION {[1..n -> 1..3] : n \in 1..MaxEntries}}

\* sorted(ids) of a set of ids.
RECURSIVE Sorted(_)
Sorted(ids) ==
    IF ids = {} THEN <<>>
    ELSE LET least == CHOOSE a \in ids : \A b \in ids : a <= b
         IN <<least>> \o Sorted(ids \ {least})

\* The components a price set needs.
RequiredCoresMemory == {"cores", "memory"}

Required == {"cores", "memory", "storage"}

\* `if not data['prices']: continue` decides alone whether a group is sent.
ProceedsWhenComplete(data) == Required \subseteq data.price_types

Proceeds(data) == data.prices # {}

\* The first loop of create_component_price_sets over the entries left:
\* storage prices by region, cores and memory prices by family.
RECURSIVE GroupEntries(_, _)
GroupEntries(entries, acc) ==
    IF entries = <<>> THEN acc
    ELSE
        LET p == Head(entries)
            price_id == price_id_map[p.code]
            isNew == \A g \in DOMAIN acc.groups : acc.groups[g].family # p.machine_family
            groups == IF isNew
                         THEN Append(acc.groups, [family |-> p.machine_family,
                                                  prices |-> {}, price_types |-> {}])
                         ELSE acc.groups
            next ==
                IF price_id = 0 THEN acc
                ELSE IF p.priceTypeCode = "storage" \/ p.names_storage
                    THEN [acc EXCEPT !.storage = @ \cup {price_id}]
                ELSE IF /\ p.priceTypeCode \in {"cores", "memory"}
                        /\ p.machine_family \notin {"software", "unknown"}
                    THEN [acc EXCEPT !.groups =
                             [g \in DOMAIN groups |->
                                 IF groups[g].family = p.machine_family
                                    THEN [groups[g] EXCEPT
                                             !.prices = @ \cup {price_id},
                                             !.price_types = @ \cup {p.priceTypeCode}]
                                    ELSE groups[g]]]
                ELSE acc
        IN GroupEntries(Tail(entries), next)

\* The second loop: the storage prices of the region join every family set.
AttachStorage(acc) ==
    [g \in DOMAIN acc.groups |->
        IF acc.storage # {}
           THEN [acc.groups[g] EXCEPT !.prices = @ \cup acc.storage,
                                      !.price_types = @ \cup {"storage"}]
           ELSE acc.groups[g]]

\* create_component_price_sets up to its requests: no price on the target
\* ends it at once.
GroupComponentPrices ==
    /\ spc = "group"
    /\ sscript = "component"
    /\ IF \A c \in DOMAIN price_id_map : price_id_map[c] = 0
          THEN /\ spc' = "done"
               /\ UNCHANGED <<storage_prices, family_prices>>
          ELSE LET acc == GroupEntries(sprices, [storage |-> {}, groups |-> <<>>]) IN
               /\ storage_prices' = acc.storage
               /\ family_prices' = AttachStorage(acc)
               /\ spc' = IF acc.groups = <<>> THEN "done" ELSE "emit"
    /\ UNCHANGED <<sscript, sprices, price_id_map, sidx, incomplete, requests,
                   set_errors>>
    /\ OnlySets

\* One pass of the last loop: the payload of a group and its PUT or POST
\* behind the lookup of its code; an exception is logged.
EmitComponentSet(answer) ==
    /\ spc = "emit"
    /\ sscript = "component"
    /\ LET data == family_prices[sidx + 1] IN
       IF ~Proceeds(data) THEN UNCHANGED <<incomplete, requests, set_errors>>
       ELSE
          /\ set_errors' = IF answer = "raise" THEN set_errors \cup {data.family}
                                               ELSE set_errors
          /\ incomplete' = IF Required \subseteq data.price_types
                              THEN incomplete ELSE incomplete \cup {data.family}
          /\ requests' =
                IF answer = "raise" THEN requests
                ELSE Append(requests,
                            [method |-> IF answer = "found" THEN "put" ELSE "post",
                             code |-> data.family,
                             prices |-> Sorted(data.prices)])
    /\ sidx' = sidx + 1
    /\ spc' = IF sidx + 1 = Len(family_prices) THEN "done" ELSE "emit"
    /\ UNCHANGED <<sscript, sprices, price_id_map, storage_prices, family_prices>>
    /\ OnlySets

\* group_prices_by_category: the prices of each category, in a list.
RECURSIVE GroupByCategory(_, _)
GroupByCategory(prices, groups) ==
    IF prices = <<>> THEN groups
    ELSE
        LET price == Head(prices)
            isNew == \A g \in DOMAIN groups : groups[g].family # price.category
            withKey == IF isNew
                          THEN Append(groups, [family |-> price.category, prices |-> <<>>,
                                               price_types |-> {}])
                          ELSE groups
        IN GroupByCategory(Tail(prices),
                           [g \in DOMAIN withKey |->
                               IF withKey[g].family = price.category
                                  THEN [withKey[g] EXCEPT !.prices = Append(@, price)]
                                  ELSE withKey[g]])

\* main of create_price_sets.py up to its loop.
GroupPricesByCategory ==
    /\ spc = "group"
    /\ sscript = "create_price_sets"
    /\ family_prices' = GroupByCategory(sprices, <<>>)
    /\ spc' = "emit"
    /\ UNCHANGED <<sscript, sprices, price_id_map, sidx, storage_prices, incomplete,
                   requests, set_errors>>
    /\ OnlySets

\* One pass of the loop of main: a category whose price set exists is left
\* alone, another is created from create_price_set_data; an exception of the
\* lookup ends the run.
CreatePriceSet(answer) ==
    /\ spc = "emit"
    /\ sscript = "create_price_sets"
    /\ LET category_prices == family_prices[sidx + 1].prices
           price_ids == [k \in 1..Len(category_prices) |-> category_prices[k].id]
       IN
       /\ requests' =
             IF answer = "absent" /\ category_prices # <<>>
                THEN Append(requests, [method |-> "post",
                                       code |-> family_prices[sidx + 1].family,
                                       prices |-> price_ids])
                ELSE requests
       /\ set_errors' = IF answer = "raise"
                            THEN set_errors \cup {family_prices[sidx + 1].family}
                            ELSE set_errors
       /\ spc' = IF answer = "raise" THEN "aborted"
                 ELSE IF sidx + 1 = Len(family_prices) THEN "done" ELSE "emit"
    /\ sidx' = sidx + 1
    /\ UNCHANGED <<sscript, sprices, price_id_map, storage_prices, family_prices,
                   incomplete>>
    /\ OnlySets

\* The prices of the target that carry the prefix: all, all but one, none.
PriceIdMaps(entries) ==
    {[c \in 1..Len(entries) |-> IF c \in missing THEN 0 ELSE c] :
        missing \in {{}, 1..Len(entries)} \cup {{c} : c \in 1..Len(entries)}}

InitSets ==
    /\ sscript \in {"component", "create_price_sets"}
    /\ IF sscript = "component"
          THEN /\ sprices \in PricingInputs
               /\ price_id_map \in PriceIdMaps(sprices)
          ELSE /\ sprices \in PricesJson
               /\ price_id_map = <<>>
    /\ spc = "group"
    /\ sidx = 0
    /\ storage_prices = {}
    /\ family_prices = <<>>
    /\ incomplete = {}
    /\ requests = <<>>
    /\ set_errors = {}
    /\ IdleSync /\ IdleValidate /\ IdleRetry /\ IdlePage /\ IdleCatalog
    /\ IdleClassify /\ IdleCode /\ IdleLast

NextSets ==
    \/ GroupComponentPrices
    \/ \E answer \in {"found", "absent", "raise"} : EmitComponentSet(answer)
    \/ GroupPricesByCategory
    \/ \E answer \in {"found", "absent", "raise"} : CreatePriceSet(answer)

SpecSets == InitSets /\ [][NextSets]_vars

\* The references of the prices of pricing_data that the target holds.
OnTarget(k) == price_id_map[sprices[k].code] # 0

FamilyRefs(family) ==
    {price_id_map[sprices[k].code] :
        k \in {n \in 1..Len(sprices) :
                  /\ OnTarget(n)
                  /\ sprices[n].priceTypeCode \in {"cores", "memory"}
                  /\ sprices[n].machine_family = family}}

TypeRefs(family, type) ==
    {price_id_map[sprices[k].code] :
        k \in {n \in 1..Len(sprices) :
                  /\ OnTarget(n)
                  /\ sprices[n].priceTypeCode = type
                  /\ sprices[n].machine_family = family}}

StorageRefs ==
    {price_id_map[sprices[k].code] :
        k \in {n \in 1..Len(sprices) : OnTarget(n) /\ sprices[n].priceTypeCode = "storage"}}

GroupsOf(family) == {g \in 1..Len(family_prices) : family_prices[g].family = family}

\* The grouping of the component script has run.
Grouped ==
    /\ sscript = "component"
    /\ spc \in {"emit", "done"}
    /\ \E k \in 1..Len(sprices) : OnTarget(k)

\* cores, memory and storage are all present in the set of a family.
Complete(family) ==
    /\ TypeRefs(family, "cores") # {}
    /\ TypeRefs(family, "memory") # {}
    /\ StorageRefs # {}

\* C17: one set per (family, region) group that has a cores or memory price,
\* none for entries without family; it holds exactly the references of the
\* cores and memory prices of the family and of every storage price of the
\* region; it is logged as incomplete exactly when cores, memory or storage
\* is absent from it.
C17_ComponentSetOfGroup ==
    Grouped =>
        /\ \A family \in {"e2", "n2", "unknown", "software"} :
              /\ Cardinality(GroupsOf(family)) =
                    IF family \in {"e2", "n2"} /\ FamilyRefs(family) # {} THEN 1 ELSE 0
              /\ \A g \in GroupsOf(family) :
                    /\ family_prices[g].prices = FamilyRefs(family) \cup StorageRefs
                    /\ g <= sidx => (family \in incomplete <=> ~Complete(family))
        /\ \A g \in 1..Len(family_prices) :
              family_prices[g].family \in {"e2", "n2"}

\* C17 witness: three cores prices of e2 and two storage prices: one set of
\* five references, incomplete for want of a memory price.
C17_ThreeCoresTwoStorage ==
    /\ Grouped /\ spc = "done"
    /\ Len(sprices) = 5
    /\ Cardinality(TypeRefs("e2", "cores")) = 3
    /\ Cardinality(StorageRefs) = 2
    /\ Len(family_prices) = 1
    /\ Cardinality(family_prices[1].prices) = 5
    /\ "e2" \in incomplete

C20_NoDuplicatePriceReference ==
    \A r \in 1..Len(requests) :
        \A j, k \in 1..Len(requests[r].prices) :
            j # k => requests[r].prices[j] # requests[r].prices[k]

----------------------------------------------------------------------------
(* Accounting of the records of a run *)

\* create_component_price_sets logs `No prices found with the required
\* prefix` when the target holds no price at all; the loop over pricing_data
\* writes no log entry.
LogsNoPrices == \A c \in DOMAIN price_id_map : price_id_map[c] = 0

\* C22: no record is dropped without a logged reason: a price of
\* pricing_data that has no id in the code-to-id lookup, and so enters no
\* price set, is accounted for by a log entry.
C22_DroppedPriceIsLogged ==
    (sscript = "component" /\ spc \in {"emit", "done"}) =>
        \A k \in 1..Len(sprices) : ~OnTarget(k) => LogsNoPrices

\* An external writer creates the code of the current record between its
\* lookup and its create request.
ExternalWrite ==
    /\ pc = "create"
    /\ Entry.code \notin target
    /\ target' = target \cup {Entry.code}
    /\ UNCHANGED <<script, batch, run, i, pc, existing, payloadBound, created_prices,
                   skipped_count, error_count, outcome, logged, lookedUp, posts,
                   lookupFaults>>
    /\ OnlySync

NextRace ==
    \/ NextSync
    \/ ExternalWrite

SpecRace == InitSync /\ [][NextRace]_vars

\* C23: a create request for a code that an external writer created after
\* the lookup had truly found it absent (every lookup of the run was
\* answered; the create can only be refused as a conflict) makes the record
\* a skip, as if the lookup had found it: no error is counted and the run
\* goes on.
C23_ConflictTreatedAsSkip ==
    [][(/\ pc = "create" /\ lookupFaults = 0
        /\ Entry.code \in target /\ posts' # posts) =>
          /\ outcome' = Append(outcome, "existing")
          /\ error_count' = error_count
          /\ pc' # "aborted"]_vars

\* C24: the wait after failed attempt number k (from 0) is 2^k seconds, in
\* make_request, _retry_request and _retry_api_call.
C24_WaitIsPowerOfTwo ==
    client \in {"make_request", "_retry_request", "_retry_api_call"} =>
        \A k \in 1..Len(waits) : waits[k] = Pow2(k - 1)

Count(seq, what) == Cardinality({k \in 1..Len(seq) : seq[k] \in what})

\* C28: in create_prices.py every SKU of a completed run ends in exactly one
\* of found existing, skipped for missing pricing information, created and
\* errored, and the collected prices, the skipped count and the error count
\* add up to the number of SKUs.
C28_OutcomesAddUp ==
    (script = "create_prices" /\ pc = "done") =>
        /\ Len(outcome) = Len(batch)
        /\ \A k \in 1..Len(outcome) :
              outcome[k] \in {"existing", "no_pricing", "created", "failed"}
        /\ created_prices = Count(outcome, {"existing", "created"})
        /\ skipped_count = Count(outcome, {"no_pricing"})
        /\ error_count = Count(outcome, {"failed"})
        /\ created_prices + skipped_count + error_count = Len(batch)

\* C28 witness: a completed run of two SKUs, one skipped and one errored.
C28_OneSkippedOneErrored ==
    /\ script = "create_prices" /\ pc = "done" /\ Len(batch) = 2
    /\ skipped_count = 1 /\ error_count = 1 /\ created_prices = 0

\* C29: the price type the classifier gives a SKU is one of storage, cores,
\* memory and software, and the payload built from it passes
\* validate_price_payload.
C29_ClassifiedPayloadIsValid ==
    kpc = "classified" =>
        /\ kclass[1] \in PipelinePriceTypes
        /\ ValidatePricePayload(BuildPayload([priceTypeCode |-> kclass[1]]))

\* C29 witness: a SKU that no rule matches is typed software.
C29_SoftwareByDefault == kpc = "classified" /\ kclass[1] = "software"

----------------------------------------------------------------------------
(* Price sets mapped to a service plan: map_price_sets_to_service_plans.py *)
(* and the mapping loop of main in gcp-price-sync-final.py                  *)

\* Runs of the mapping against the same plan.
MaxMapRuns == 2
\* Price sets in price_sets.json.
MaxNewSets == 2

SetIds == {1, 2, 3}

Range(seq) == {seq[k] : k \in 1..Len(seq)}

\* get_existing_price_set_mappings: the references of the plan, as the
\* target lists them.
ExistingMappingsNone(service_plan) == <<>>

ExistingMappings(service_plan) == Sorted(service_plan)

\* `[ps for ps in price_sets if ps['id'] not in existing_ids]`
NewPriceSetsAll(sets, existing_ids) == sets

NewPriceSets(sets, existing_ids) ==
    SelectSeq(sets, LAMBDA id : id \notin existing_ids)

\* update_service_plan_with_price_sets: the priceSets of the payload.
UpdateServicePlanWithPriceSets(service_plan, new_price_sets) ==
    LET existing_mappings == ExistingMappings(service_plan)
        existing_ids == Range(existing_mappings)
        new_mappings == SelectSeq(new_price_sets, LAMBDA id : id \notin existing_ids)
    IN existing_mappings \o new_mappings

\* main of the final script: the priceSets of the payload for a plan and the
\* price set matched to it.
FinalIds(current_ids, ps_id) == Sorted(current_ids \cup {ps_id})

\* main of map_price_sets_to_service_plans.py: the plan is read, the price
\* sets it lacks are added in one update, the summary is written.  A plan
\* that cannot be read or updated ends the process.
MapPriceSets(get_ok, put_ok) ==
    /\ mpc = "map"
    /\ mscript = "map_price_sets"
    /\ IF ~get_ok THEN
          /\ mpc' = "exit"
          /\ UNCHANGED <<plan_refs, puts, changes_made>>
       ELSE
          LET existing_mappings == ExistingMappings(plan_refs)
              existing_ids == Range(existing_mappings)
              new_price_sets == NewPriceSets(new_sets, existing_ids)
          IN
          IF new_price_sets = <<>> THEN
             /\ changes_made' = FALSE
             /\ mpc' = "done"
             /\ UNCHANGED <<plan_refs, puts>>
          ELSE
             LET payload == UpdateServicePlanWithPriceSets(plan_refs, new_price_sets) IN
             /\ puts' = Append(puts, [priceSets |-> payload])
             /\ IF put_ok
                   THEN /\ plan_refs' = Range(payload)
                        /\ changes_made' = TRUE
                        /\ mpc' = "done"
                   ELSE /\ mpc' = "exit"
                        /\ UNCHANGED <<plan_refs, changes_made>>
    /\ UNCHANGED <<mscript, new_sets, mrun, mbefore, mprev>>
    /\ OnlyMap

\* One plan in the mapping loop of main: a plan without a matching price
\* set is passed over; a failed update is logged.
MapToPlans(put_ok) ==
    /\ mpc = "map"
    /\ mscript = "main_final"
    /\ IF new_sets = <<>> THEN UNCHANGED <<plan_refs, puts>>
       ELSE
          LET final_ids == FinalIds(plan_refs, new_sets[1]) IN
          /\ puts' = Append(puts, [priceSets |-> final_ids])
          /\ plan_refs' = IF put_ok THEN Range(final_ids) ELSE plan_refs
    /\ mpc' = "done"
    /\ UNCHANGED <<mscript, new_sets, mrun, mbefore, mprev, changes_made>>
    /\ OnlyMap

\* The mapping is run again with the same price sets.
NewMapRun ==
    /\ mpc \in {"done", "exit"}
    /\ mrun < MaxMapRuns
    /\ mrun' = mrun + 1
    /\ mpc' = "map"
    /\ mprev' = IF mpc = "exit" THEN "exit"
                ELSE IF puts # <<>> THEN "changed" ELSE "unchanged"
    /\ mbefore' = plan_refs
    /\ puts' = <<>>
    /\ changes_made' = "unset"
    /\ UNCHANGED <<mscript, plan_refs, new_sets>>
    /\ OnlyMap

InitMap ==
    /\ mscript \in {"map_price_sets", "main_final"}
    /\ plan_refs \in SUBSET SetIds
    /\ new_sets \in UNION {[1..n -> SetIds] : n \in 0..MaxNewSets}
    \* the script ends at once on an empty price_sets.json; main matches one
    \* price set to a plan at most
    /\ mscript = "map_price_sets" => new_sets # <<>>
    /\ mscript = "main_final" => Len(new_sets) <= 1
    /\ mrun = 1
    /\ mpc = "map"
    /\ mbefore = plan_refs
    /\ mprev = "none"
    /\ puts = <<>>
    /\ changes_made = "unset"
    /\ IdleSync /\ IdleValidate /\ IdleRetry /\ IdlePage /\ IdleCatalog
    /\ IdleClassify /\ IdleCode /\ IdleSets /\ IdleMain

NextMap ==
    \/ \E get_ok, put_ok \in BOOLEAN : MapPriceSets(get_ok, put_ok)
    \/ \E put_ok \in BOOLEAN : MapToPlans(put_ok)
    \/ NewMapRun

SpecMap == InitMap /\ [][NextMap]_vars

\* C21: the references sent in a plan update are the references the plan
\* had and the ids of the new price sets, and nothing else.
C21_UpdateIsUnion ==
    \A k \in 1..Len(puts) :
        /\ Range(puts[k].priceSets) = mbefore \cup Range(new_sets)
        /\ mbefore \subseteq Range(puts[k].priceSets)

\* C21 witness: the script updated a plan that had a reference with a set
\* it lacked.
C21_AddedToExisting ==
    /\ mscript = "map_price_sets" /\ mpc = "done" /\ Len(puts) = 1
    /\ mbefore # {} /\ ~(Range(new_sets) \subseteq mbefore)
    /\ plan_refs = mbefore \cup Range(new_sets)

\* C30: a run of the mapping script that finds every price set referenced
\* sends no update and reports that no change was made; a run after a
\* successful run leaves the references of the plan as they were.
C30_MappingIsIdempotent ==
    mscript = "map_price_sets" =>
        /\ (mpc = "done" /\ Range(new_sets) \subseteq mbefore) =>
              /\ puts = <<>>
              /\ changes_made = FALSE
              /\ plan_refs = mbefore
        /\ (mrun >= 2 /\ mprev \in {"changed", "unchanged"}) =>
              /\ puts = <<>>
              /\ plan_refs = mbefore
              /\ mpc = "done" => changes_made = FALSE

\* C30 witness: the second run after a run that changed the plan.
C30_SecondRunAfterChange ==
    /\ mscript = "map_price_sets" /\ mrun = 2 /\ mprev = "changed" /\ mpc = "done"
    /\ changes_made = FALSE /\ plan_refs = mbefore

----------------------------------------------------------------------------
(* A run of gcp-price-sync-final.py: main and sync_data *)

\* Runs against the same target.
MaxMainRuns == 2

Families == {"e2", "n2"}

\* The flags of main that decide its requests; sync_data takes dry_run and
\* create_service_plans.
Flags ==
    [dry_run : BOOLEAN, create_prices : BOOLEAN, create_price_sets : BOOLEAN,
     map_to_plans : BOOLEAN, validate_only : BOOLEAN,
     discover_morpheus_plans : BOOLEAN, create_service_plans : BOOLEAN]

\* Catalogs of two pricing entries, the first a cores price of e2.
MainCatalogs ==
    {c \in PricingInputs :
        /\ Len(c) = 2
        /\ c[1].priceTypeCode = "cores" /\ c[1].machine_family = "e2"}

\* `if not args.dry_run:` / `if not dry_run:`
WritesAlways(a) == TRUE

Writes(a) == ~a.dry_run

\* create_prices_flag and create_price_sets_flag of main; sync_data does both.
CreatePricesFlag(a) ==
    \/ entry_point = "sync_data"
    \/ a.create_prices
    \/ (~a.create_prices /\ ~a.create_price_sets)

CreatePriceSetsFlag(a) ==
    \/ entry_point = "sync_data"
    \/ a.create_price_sets
    \/ (~a.create_prices /\ ~a.create_price_sets)

Get(endpoint) == [method |-> "get", endpoint |-> endpoint]

\* validate_sync: three listings.
ValidateSync == <<Get("prices"), Get("price-sets"), Get("service-plans")>>

\* The price loop over the entries left: a lookup per entry and a create
\* request for a code the target does not hold; ok says whether the target
\* accepts the create requests.
RECURSIVE SyncPrices(_, _, _)
SyncPrices(entries, acc, ok) ==
    IF entries = <<>> THEN acc
    ELSE
        LET code == Head(entries).code
            found == acc.map[code] /= 0
            next ==
                IF found THEN [acc EXCEPT !.http = Append(@, Get("prices"))]
                ELSE [map |-> IF ok THEN [acc.map EXCEPT ![code] = code] ELSE acc.map,
                      http |-> acc.http \o <<Get("prices"),
                                             [method |-> "post", endpoint |-> "prices"]>>]
        IN SyncPrices(Tail(entries), next, ok)

\* main up to the sync: plan discovery, and validate_sync when only that is
\* asked for.
MainStart ==
    /\ mainpc = "start"
    /\ IF entry_point = "sync_data" THEN
          /\ mainpc' = "prices"
          /\ UNCHANGED http
       ELSE IF args.discover_morpheus_plans THEN
          /\ http' = Append(http, Get("service-plans"))
          /\ mainpc' = "done"
       ELSE IF args.validate_only THEN
          /\ http' = Append(http, Get("service-plans")) \o ValidateSync
          /\ mainpc' = "done"
       ELSE
          /\ http' = Append(http, Get("service-plans"))
          /\ mainpc' = "prices"
    /\ UNCHANGED <<entry_point, args, mcatalog, plans, tsets, mainrun,
                   main_pricing_data, sets_before>>
    /\ UNCHANGED setVars
    /\ OnlyMain

\* The price stage: pricing_data is built only under create_prices_flag and
\* the prices are created unless the run is a dry run.
PricesStage(ok) ==
    /\ mainpc = "prices"
    /\ IF CreatePricesFlag(args) THEN
          /\ main_pricing_data' = mcatalog
          /\ IF Writes(args) THEN
                LET res == SyncPrices(mcatalog, [map |-> price_id_map, http |-> http], ok)
                IN /\ price_id_map' = res.map
                   /\ http' = res.http
             ELSE UNCHANGED <<price_id_map, http>>
       ELSE
          /\ main_pricing_data' = <<>>
          /\ UNCHANGED <<price_id_map, http>>
    /\ mainpc' = "sets"
    /\ UNCHANGED <<entry_point, args, mcatalog, plans, tsets, mainrun, sets_before>>
    /\ UNCHANGED <<sscript, sprices, spc, sidx, storage_prices, family_prices,
                   incomplete, requests, set_errors>>
    /\ OnlyMain

\* The price-set stage: create_component_price_sets is called with the
\* local pricing_data, unless the run is a dry run.
SetsStage ==
    /\ mainpc = "sets"
    /\ IF CreatePriceSetsFlag(args) /\ Writes(args) THEN
          /\ sscript' = "component"
          /\ sprices' = main_pricing_data
          /\ spc' = "group"
          /\ sidx' = 0
          /\ storage_prices' = {}
          /\ family_prices' = <<>>
          /\ incomplete' = {}
          /\ requests' = <<>>
          /\ set_errors' = {}
          /\ sets_before' = {f \in Families : tsets[f] > 0}
          /\ mainpc' = "call"
       ELSE
          /\ mainpc' = IF entry_point = "main" THEN "map" ELSE "plans"
          /\ UNCHANGED <<sscript, sprices, spc, sidx, storage_prices, family_prices,
                         incomplete, requests, set_errors, sets_before>>
    /\ UNCHANGED <<entry_point, args, mcatalog, plans, tsets, mainrun,
                   main_pricing_data, http, price_id_map>>
    /\ OnlyMain

\* `price-sets?code=` as the target answers it.
LookupPriceSetAbsent(code) == "absent"

LookupPriceSet(code) == IF tsets[code] > 0 THEN "found" ELSE "absent"

\* create_component_price_sets inside the run: its lookups are answered by
\* the target, or raise.
CallGroupComponentPrices ==
    /\ mainpc = "call"
    /\ GroupComponentPrices

CallEmitComponentSet(answer) ==
    /\ mainpc = "call"
    /\ spc = "emit"
    /\ answer \in {LookupPriceSet(family_prices[sidx + 1].family), "raise"}
    /\ EmitComponentSet(answer)

\* create_component_price_sets returns: the target holds the sets whose
\* create request it accepted.
SetsReturn ==
    /\ mainpc = "call"
    /\ spc = "done"
    /\ LET posted == {requests[k].code :
                         k \in {n \in 1..Len(requests) : requests[n].method = "post"}}
           writes == [k \in 1..Len(requests) |->
                         [method |-> requests[k].method, endpoint |-> "price-sets"]]
       IN /\ \E accepted \in SUBSET posted :
                tsets' = [f \in Families |->
                             IF f \in accepted THEN tsets[f] + 1 ELSE tsets[f]]
          /\ http' = Append(http, Get("prices")) \o writes
    /\ mainpc' = IF entry_point = "main" THEN "map" ELSE "plans"
    /\ UNCHANGED <<entry_point, args, mcatalog, plans, mainrun, main_pricing_data,
                   sets_before>>
    /\ UNCHANGED setVars
    /\ OnlyMain

\* The mapping stage of main: an update for every discovered plan whose
\* price set the target holds, then validate_sync.
RECURSIVE PlanUpdates(_)
PlanUpdates(ps) ==
    IF ps = <<>> THEN <<>>
    ELSE (IF tsets[Head(ps)] > 0
             THEN <<[method |-> "put", endpoint |-> "service-plans"]>> ELSE <<>>)
         \o PlanUpdates(Tail(ps))

MapStage ==
    /\ mainpc = "map"
    /\ http' = (IF args.map_to_plans /\ Writes(args) /\ plans /= <<>>
                   THEN Append(http, Get("price-sets")) \o PlanUpdates(plans)
                   ELSE http)
               \o ValidateSync
    /\ mainpc' = "done"
    /\ UNCHANGED <<entry_point, args, mcatalog, plans, tsets, mainrun,
                   main_pricing_data, sets_before>>
    /\ UNCHANGED setVars
    /\ OnlyMain

\* The service plans of sync_data: a create request for each plan built.
PlansStage ==
    /\ mainpc = "plans"
    /\ http' = IF Writes(args) /\ args.create_service_plans
                  THEN http \o [k \in 1..Len(plans) |->
                                   [method |-> "post", endpoint |-> "service-plans"]]
                  ELSE http
    /\ mainpc' = "done"
    /\ UNCHANGED <<entry_point, args, mcatalog, plans, tsets, mainrun,
                   main_pricing_data, sets_before>>
    /\ UNCHANGED setVars
    /\ OnlyMain

\* The script is run again with the same flags and catalog.
NewMainRun ==
    /\ mainpc = "done"
    /\ mainrun < MaxMainRuns
    /\ mainrun' = mainrun + 1
    /\ mainpc' = "start"
    /\ http' = <<>>
    /\ main_pricing_data' = <<>>
    /\ sets_before' = {}
    /\ sprices' = <<>> /\ spc' = "idle" /\ sidx' = 0 /\ storage_prices' = {}
    /\ family_prices' = <<>> /\ incomplete' = {} /\ requests' = <<>>
    /\ set_errors' = {}
    /\ UNCHANGED <<entry_point, args, mcatalog, plans, tsets, sscript, price_id_map>>
    /\ OnlyMain

InitMain ==
    /\ entry_point \in {"main", "sync_data"}
    /\ args \in Flags
    /\ entry_point = "sync_data" =>
          /\ ~args.create_prices /\ ~args.create_price_sets /\ ~args.map_to_plans
          /\ ~args.validate_only /\ ~args.discover_morpheus_plans
    /\ mcatalog \in MainCatalogs
    /\ price_id_map \in PriceIdMaps(mcatalog)
    /\ plans \in {<<>>, <<"e2">>}
    /\ tsets \in {[f \in Families |-> 0], [f \in Families |-> IF f = "e2" THEN 1 ELSE 0]}
    /\ mainpc = "start"
    /\ mainrun = 1
    /\ main_pricing_data = <<>>
    /\ sets_before = {}
    /\ http = <<>>
    /\ sscript = "component" /\ sprices = <<>>
    /\ spc = "idle" /\ sidx = 0 /\ storage_prices = {} /\ family_prices = <<>>
    /\ incomplete = {} /\ requests = <<>> /\ set_errors = {}
    /\ IdleSync /\ IdleValidate /\ IdleRetry /\ IdlePage /\ IdleCatalog
    /\ IdleClassify /\ IdleCode /\ IdleMap

NextMain ==
    \/ MainStart
    \/ \E ok \in BOOLEAN : PricesStage(ok)
    \/ SetsStage
    \/ CallGroupComponentPrices
    \/ \E answer \in {"found", "absent", "raise"} : CallEmitComponentSet(answer)
    \/ SetsReturn
    \/ MapStage
    \/ PlansStage
    \/ NewMainRun

SpecMain == InitMain /\ [][NextMain]_vars

\* C25: a dry run issues read requests only, whatever the other flags are,
\* and never calls create_component_price_sets.
C25_DryRunOnlyReads ==
    (mainpc # "idle" /\ args.dry_run) =>
        /\ \A k \in 1..Len(http) : http[k].method = "get"
        /\ spc = "idle"
        /\ requests = <<>>

\* C25 witness: a finished dry run of main with every creating flag set,
\* a plan to map and a price the target lacks.
C25_DryRunWithAllFlags ==
    /\ entry_point = "main" /\ mainpc = "done" /\ args.dry_run
    /\ args.create_prices /\ args.create_price_sets /\ args.map_to_plans
    /\ args.create_service_plans
    /\ ~args.validate_only /\ ~args.discover_morpheus_plans
    /\ plans # <<>>
    /\ \E c \in DOMAIN price_id_map : price_id_map[c] = 0
    /\ Len(http) >= 4

\* A finished run of main that synchronised, against a target that holds
\* every price of the catalog.
SyncedOnPricedTarget ==
    /\ entry_point = "main" /\ mainpc = "done"
    /\ ~args.dry_run /\ ~args.validate_only /\ ~args.discover_morpheus_plans
    /\ \A c \in DOMAIN price_id_map : price_id_map[c] # 0

\* The groups of the catalog, as create_component_price_sets builds them.
CatalogGroups == AttachStorage(GroupEntries(mcatalog, [storage |-> {}, groups |-> <<>>]))

\* C26: with --create-price-sets and without --create-prices the component
\* price sets are built for every (family, region) group of the catalog, as
\* they are when neither flag is given.
C26_SetsWithoutCreatePrices ==
    (SyncedOnPricedTarget /\ args.create_price_sets /\ ~args.create_prices) =>
        family_prices = CatalogGroups

\* With neither flag, or with both, the groups of the catalog are built.
SetsWithBothStages ==
    (SyncedOnPricedTarget /\ (args.create_prices <=> args.create_price_sets)) =>
        family_prices = CatalogGroups

WritesOf(code) == {k \in 1..Len(requests) : requests[k].code = code}

EmittedFamilies == {family_prices[g].family : g \in 1..sidx}

\* C27 as stated: every component price set of a run gets exactly one write
\* request, an update when the target holds its code and a create otherwise.
C27_ExactlyOneWrite ==
    (mainpc # "idle" /\ spc \in {"emit", "done"}) =>
        \A f \in EmittedFamilies :
            /\ Cardinality(WritesOf(f)) = 1
            /\ \A k \in WritesOf(f) :
                  requests[k].method = IF f \in sets_before THEN "put" ELSE "post"

\* C27: every component price set of a run gets at most one write request
\* and exactly one unless its lookup or request raised; the request is an
\* update when the target holds the code and a create otherwise, and the
\* target never holds two price sets of one code.
C27_OneWriteUnlessRaised ==
    /\ (mainpc # "idle" /\ spc \in {"emit", "done"}) =>
          \A f \in EmittedFamilies :
              /\ Cardinality(WritesOf(f)) = IF f \in set_errors THEN 0 ELSE 1
              /\ \A k \in WritesOf(f) :
                    requests[k].method = IF f \in sets_before THEN "put" ELSE "post"
    /\ mainpc # "idle" => \A f \in Families : tsets[f] <= 1

\* C27 witness: the second run updates the price set of n2, which only an
\* earlier run can have created.
C27_SecondRunUpdates ==
    /\ mainrun = 2 /\ mainpc = "done"
    /\ \E k \in 1..Len(requests) :
          requests[k].code = "n2" /\ requests[k].method = "put"

====
